---- MODULE Spec2Model ----
(***************************************************************************)
(* A model of the gateway_RTU core: the alarm / interlock engine           *)
(* (gateway/alarm/alarm_play/alarm_logic.py), the windowed threshold       *)
(* classifier (gateway/sensor/threshold_analyzer.py) and the Modbus RTU    *)
(* read transport (gateway/sensor/vibration_monitor_1.py and               *)
(* vibration_monitor_ui.py, which hold the same client).                   *)
(*                                                                         *)
(* Each part has its own specification; the variables of the other parts   *)
(* stay at their initial values under it.                                  *)
(***************************************************************************)
EXTENDS Integers, Sequences, FiniteSets, TLC

VARIABLES
    \* ---- alarm engine memory (module globals of alarm_logic.py) ----
    g_101_trigger_start,   \* start of the level-3 sustained timer, or None
    g_101_current,         \* remembered value of control register 101, or None
    g_101_changed_at,      \* time of the last observed change of 101, or None
    g_43501_latched,       \* latched value of indicator 43501: None, 0 or 1
    now,                   \* the clock: the last value time.time() returned
    last,                  \* the last build_rtu_registers call: inputs, clock reads, result
    scenario,              \* history: where the run stands in the stop-latch scenario
    lv_phase,              \* number of calls made under SpecLevels
    \* ---- one ThresholdAnalyzer (threshold_analyzer.py) ----
    th_cfg,                \* self.config
    th_history,            \* self._history: the detection window
    th_baseline_buf,       \* self._baseline_buf: the baseline window
    th_baseline,           \* self._baseline: a mean (sum over count), or undefined
    th_result,             \* the ThresholdResult of the last update
    th_fed,                \* history: samples fed so far under SpecSustained
    th_multi,              \* two MultiChannelThresholdAnalyzers of th_cfg fed side by side
    \* ---- one ModbusRtuClient and its serial port (vibration_monitor_1.py) ----
    tr_lock,               \* self._lock: the thread holding it, or NoThread
    tr_unit_id,            \* self.unit_id
    tr_pc,                 \* per thread: where it stands in read_holding_registers
    tr_req,                \* per thread: the arguments of its call
    tr_result,             \* per thread: how its last call ended
    tr_ops,                \* per thread: the lock and port operations of its call
    tr_rx,                 \* the port's input buffer
    tr_tx,                 \* the bytes last written to the port
    \* ---- build_rtu_registers called from several threads (alarm_logic.py) ----
    eng_pc,                \* per thread: where it stands in build_rtu_registers
    eng_call,              \* per thread: the arguments and locals of its call
    eng_result,            \* per thread: how its last call ended
    \* ---- the hand-off file (sensor_service.py, alarm_service.py) ----
    fs_path,               \* the directory: the inode behind each path, or NoInode
    fs_inode,              \* the content of each inode: a sequence of text chunks
    fs_published,          \* history: the documents _write_state has put in place
    ws_pc,                 \* SensorService: where it stands in _write_state
    ws_doc,                \* SensorService: the document being written
    rd_pc,                 \* the reader: where it stands in _load_state
    rd_fd,                 \* the reader: the inode it has open, or NoInode
    rd_opened_at,          \* history: Len(fs_published) when the reader opened
    rd_result,             \* the reader: what _load_state made of the file
    \* ---- AlarmService (alarm_service.py) ----
    as_log,                \* history: how each cycle of run_forever ended
    as_engine,             \* history: the fault levels passed to engine.evaluate
    as_rtu,                \* history: number of write_registers calls
    \* ---- SensorService and its SpeedThresholdEngines (sensor_service.py) ----
    se_engines,            \* self._engines: per location, three channel analyzers
    se_last,               \* per engine: arguments and level of its last call
    aq_pc,                 \* run_forever: 0 before a cycle, 1..4 the location read next, 5 state built
    aq_cycle,              \* number of cycles of run_forever begun
    aq_read,               \* per location: what _read_speed_xyz did in this cycle
    aq_state,              \* per location: the LocationFaultState of this cycle
    \* ---- the fault-level bridge and its JSON file (fault_state_bridge.py) ----
    br_fault_levels,       \* _fault_levels of the updating process
    br_file,               \* sensor_fault_levels.json: NoFile, or its text chunk by chunk
    br_pc,                 \* update_vibration_levels: "idle", "open" or "dump"
    br_doc,                \* _save_to_json_unlocked: the text json.dump is writing
    br_args,               \* history: the mappings passed to update_vibration_levels
    br_saved,              \* history: _fault_levels at the end of each completed update
    br_rd_pc,              \* get_latest_levels_for_alarm: "idle", "load" or "done"
    br_rd_began,           \* history: Len(br_saved) when the reader began
    br_rd_result           \* what get_latest_levels_for_alarm returned

alarmVars == <<g_101_trigger_start, g_101_current, g_101_changed_at,
               g_43501_latched, now, last, scenario, lv_phase>>

thVars == <<th_cfg, th_history, th_baseline_buf, th_baseline, th_result, th_fed,
           th_multi>>

trVars == <<tr_lock, tr_unit_id, tr_pc, tr_req, tr_result, tr_ops, tr_rx, tr_tx>>

engVars == <<eng_pc, eng_call, eng_result>>

fsVars == <<fs_path, fs_inode, fs_published, ws_pc, ws_doc, rd_pc, rd_fd,
            rd_opened_at, rd_result>>

asVars == <<as_log, as_engine, as_rtu>>

seVars == <<se_engines, se_last, aq_pc, aq_cycle, aq_read, aq_state>>

brVars == <<br_fault_levels, br_file, br_pc, br_doc, br_args, br_saved,
            br_rd_pc, br_rd_began, br_rd_result>>

vars == <<alarmVars, thVars, trVars, engVars, fsVars, asVars, seVars, brVars>>

-----------------------------------------------------------------------------
(* Python's None, for a time stamp, a register value or the latch. Time     *)
(* stamps and register values are never negative.                           *)
None == -1

RUN_CODE == 81
STOP_CODE == 82
HOLD_SECONDS == 60

\* Bounds of the clock: it moves on a grid of TickSeconds, up to MaxTicks
\* ticks; between two calls it advances by at most MaxGapTicks ticks and
\* between the clock reads of one call by at most MaxCallTicks ticks.
TickSeconds == 30
MaxTicks == 4
MaxGapTicks == 2
MaxCallTicks == 1

\* The highest level (line 153). A snapshot may carry one level more: the
\* SensorState dataclass does not restrict its integers and the engine clamps them.
TopLevel == 3
LevelValues == 0..(TopLevel + 1)

\* SpecLevels drives the engine with every snapshot in which at most MaxHot
\* locations have a non-zero level.
MaxHot == 2

Min(a, b) == IF a <= b THEN a ELSE b
Max(a, b) == IF a >= b THEN a ELSE b

\* A dict with no keys, a dict with one key, and dict update (right wins).
EmptyDict == [a \in {} |-> 0]
Entry(a, v) == [x \in {a} |-> v]
Update(d, e) == [x \in (DOMAIN d) \cup (DOMAIN e) |-> IF x \in DOMAIN e THEN e[x] ELSE d[x]]
Has(d, a, v) == a \in DOMAIN d /\ d[a] = v

-----------------------------------------------------------------------------
(*                          SensorState and helpers                        *)

LevelFields == {"belt_level", "mid_bearing_level", "tail_bearing_level",
                "horsehead_level", "crank_left_level", "crank_right_level",
                "line_level"}

SensorState(belt, mid, tail, horse, cl, cr, line, a, b, c, lp) ==
    [belt_level |-> belt, mid_bearing_level |-> mid, tail_bearing_level |-> tail,
     horsehead_level |-> horse, crank_left_level |-> cl, crank_right_level |-> cr,
     line_level |-> line, elec_phase_a_ok |-> a, elec_phase_b_ok |-> b,
     elec_phase_c_ok |-> c, loadpos_ok |-> lp]

DefaultState == SensorState(0, 0, 0, 0, 0, 0, 0, TRUE, TRUE, TRUE, TRUE)

\* Mutant of any_sensor_reach_level: the line counts as a sensor as well.
any_sensor_reach_level_with_line(state, level) ==
    \E name \in {"crank_left_level", "crank_right_level", "tail_bearing_level",
                 "mid_bearing_level", "horsehead_level", "belt_level",
                 "line_level"} :
        state[name] >= level

any_sensor_reach_level(state, level) ==
    \E name \in {"crank_left_level", "crank_right_level", "tail_bearing_level",
                 "mid_bearing_level", "horsehead_level", "belt_level"} :
        state[name] >= level

any_vibration_reach_level(state, level) ==
    \E name \in {"crank_left_level", "crank_right_level",
                 "tail_bearing_level", "mid_bearing_level"} :
        state[name] >= level

electrical_missing_count(state) ==
    (IF state.elec_phase_a_ok THEN 0 ELSE 1)
    + (IF state.elec_phase_b_ok THEN 0 ELSE 1)
    + (IF state.elec_phase_c_ok THEN 0 ELSE 1)

electrical_missing_at_least_one(state) == electrical_missing_count(state) >= 1

electrical_all_ok(state) == electrical_missing_count(state) = 0

loadpos_abnormal(state) == ~state.loadpos_ok

loadpos_normal(state) == state.loadpos_ok

\* Mutant of clamp: no upper limit.
clamp_open(value, max_val) == Max(0, value)

clamp(value, max_val) == Max(0, Min(value, max_val))

electrical_level(state) ==
    LET missing_count == electrical_missing_count(state)
    IN IF missing_count <= 0 THEN 0 ELSE IF missing_count = 1 THEN 1 ELSE 2

loadpos_level(state) == IF loadpos_abnormal(state) THEN 1 ELSE 0

\* Mutant of aggregate_level: the line level is left out.
aggregate_level_no_line(state) ==
    LET m == Max(0, Max(state.belt_level, Max(state.mid_bearing_level,
             Max(state.tail_bearing_level, Max(state.horsehead_level,
             Max(state.crank_left_level, Max(state.crank_right_level,
             Max(electrical_level(state), loadpos_level(state)))))))))
    IN IF m > 3 THEN 3 ELSE m

\* Lines 148-154: the maximum of everything, capped at 3.
aggregate_level(state) ==
    LET m == Max(0, Max(state.belt_level, Max(state.mid_bearing_level,
             Max(state.tail_bearing_level, Max(state.horsehead_level,
             Max(state.crank_left_level, Max(state.crank_right_level,
             Max(state.line_level, Max(electrical_level(state),
                 loadpos_level(state))))))))))
    IN IF m > 3 THEN 3 ELSE m

\* Mutant of cond_lvl3_but_normal: only the four vibration locations count.
cond_lvl3_but_normal_vibration(state) ==
    any_vibration_reach_level(state, 3) /\ electrical_all_ok(state) /\ loadpos_normal(state)

\* Lines 157-160: a level-3 sensor with clean electrical and load position.
cond_lvl3_but_normal(state) ==
    any_sensor_reach_level(state, 3) /\ electrical_all_ok(state) /\ loadpos_normal(state)

overall_alarm_level(state) ==
    IF cond_lvl3_but_normal(state) /\ aggregate_level(state) >= 3
    THEN 2
    ELSE aggregate_level(state)

\* Mutant of fault_type: the horsehead counts as a vibration location.
fault_type_any_sensor(state) ==
    LET any_vib_lvl3 == any_sensor_reach_level(state, 3)
        belt_lvl3 == state.belt_level >= 3
        elec_bad == electrical_missing_at_least_one(state)
    IN IF belt_lvl3 /\ elec_bad THEN 1
       ELSE IF any_vib_lvl3 /\ electrical_all_ok(state) THEN 3
       ELSE IF belt_lvl3 /\ electrical_all_ok(state) THEN 3
       ELSE IF any_vib_lvl3 /\ elec_bad THEN 2
       ELSE 0

\* Lines 169-182.
fault_type(state) ==
    LET any_vib_lvl3 == any_vibration_reach_level(state, 3)
        belt_lvl3 == state.belt_level >= 3
        elec_bad == electrical_missing_at_least_one(state)
    IN IF belt_lvl3 /\ elec_bad THEN 1
       ELSE IF any_vib_lvl3 /\ electrical_all_ok(state) THEN 3
       ELSE IF belt_lvl3 /\ electrical_all_ok(state) THEN 3
       ELSE IF any_vib_lvl3 /\ elec_bad THEN 2
       ELSE 0

Bit(b) == IF b THEN 1 ELSE 0

\* Lines 165-202: the status registers 3502-3520.
status_registers(state) ==
    [a \in 3502..3520 |->
        CASE a = 3502 -> clamp(overall_alarm_level(state), 3)
          [] a = 3503 -> 0
          [] a = 3504 -> fault_type(state)
          [] a = 3505 -> Bit(state.crank_left_level >= 1)
          [] a = 3506 -> Bit(state.crank_right_level >= 1)
          [] a = 3507 -> Bit(state.tail_bearing_level >= 1)
          [] a = 3508 -> Bit(state.mid_bearing_level >= 1)
          [] a = 3509 -> Bit(state.horsehead_level >= 1)
          [] a = 3510 -> Bit(state.belt_level >= 1)
          [] a = 3511 -> Bit(electrical_missing_count(state) >= 1)
          [] a = 3512 -> Bit(loadpos_abnormal(state))
          [] a = 3513 -> clamp(state.crank_left_level, 3)
          [] a = 3514 -> clamp(state.crank_right_level, 3)
          [] a = 3515 -> clamp(state.tail_bearing_level, 3)
          [] a = 3516 -> clamp(state.mid_bearing_level, 3)
          [] a = 3517 -> clamp(state.horsehead_level, 3)
          [] a = 3518 -> clamp(state.belt_level, 3)
          [] a = 3519 -> clamp(electrical_level(state), 2)
          [] a = 3520 -> Bit(loadpos_abnormal(state))]

-----------------------------------------------------------------------------
(*                    build_rtu_registers, step by step                    *)
(* A call reads the clock up to five times: t[1] at line 125 (sync),       *)
(* t[2] at line 98 (latch), t[3] at line 216 (timer start), t[4] at line   *)
(* 218 (elapsed_l3) and t[5] at line 263 (delayed clear).                  *)

\* Mutant of sync_trigger_start: an observed run code leaves the timer running.
sync_trigger_start_kept(cur, trigger, obs) == trigger

\* Mutant of sync_changed_at: every observed value restarts the hold time.
sync_changed_at_always(cur, changed_at, obs, t1) ==
    IF obs # None THEN t1 ELSE changed_at

\* Step 0, lines 121-128: the memory after the sync with the observed value.
sync_current(cur, obs) ==
    IF obs # None /\ cur # obs THEN obs ELSE cur

sync_changed_at(cur, changed_at, obs, t1) ==
    IF obs # None /\ cur # obs THEN t1 ELSE changed_at

sync_trigger_start(cur, trigger, obs) ==
    IF obs # None /\ cur # obs /\ obs = RUN_CODE THEN None ELSE trigger

\* Mutant of update_43501_latched: the latch follows 101 at once.
update_43501_latched_eager(cur, changed_at, latched, t2) ==
    IF cur \in {RUN_CODE, STOP_CODE} /\ changed_at # None
    THEN (IF cur = STOP_CODE THEN 1 ELSE 0)
    ELSE latched

\* Mutant of update_43501_latched: an observed run code releases the latch
\* without the hold time.
update_43501_latched_release_at_once(cur, changed_at, latched, t2) ==
    IF cur = RUN_CODE /\ changed_at # None THEN 0
    ELSE IF cur = STOP_CODE /\ changed_at # None /\ t2 - changed_at >= HOLD_SECONDS
    THEN 1
    ELSE latched

\* Lines 94-104: the latch follows 101 once it has been held HOLD_SECONDS.
update_43501_latched(cur, changed_at, latched, t2) ==
    IF cur \in {RUN_CODE, STOP_CODE} /\ changed_at # None
       /\ t2 - changed_at >= HOLD_SECONDS
    THEN (IF cur = STOP_CODE THEN 1 ELSE 0)
    ELSE latched

\* Mutant of control_trigger_start: below level 3 the timer is left running.
control_trigger_start_kept(level3502, trigger, t3) ==
    IF level3502 = 3 /\ trigger = None THEN t3 ELSE trigger

\* Mutant of control_trigger_start: every level-3 call starts the timer anew.
control_trigger_start_restarted(level3502, trigger, t3) ==
    IF level3502 = 3 THEN t3 ELSE None

\* Lines 209-256: the level-3 timer after step 4.
control_trigger_start(level3502, trigger, t3) ==
    IF level3502 = 3
    THEN (IF trigger = None THEN t3 ELSE trigger)
    ELSE None

\* Mutant of control_writes: below level 2 the engine sends the run code.
control_writes_restart(level3502, overall, cur, trigger, t3, t4) ==
    LET started == control_trigger_start(level3502, trigger, t3)
    IN IF level3502 = 3
       THEN Update(IF cur # STOP_CODE THEN Entry(101, STOP_CODE) ELSE EmptyDict,
                   IF t4 - started >= HOLD_SECONDS THEN Entry(3501, 1) ELSE EmptyDict)
       ELSE IF overall < 2
            THEN Update(Entry(101, RUN_CODE), Entry(3501, 0))
            ELSE IF cur = STOP_CODE THEN Entry(3501, 1) ELSE EmptyDict

\* Mutant of control_writes: below level 3 the stop latch is not looked at.
control_writes_unlatched(level3502, overall, cur, trigger, t3, t4) ==
    LET started == control_trigger_start(level3502, trigger, t3)
    IN IF level3502 = 3
       THEN Update(IF cur # STOP_CODE THEN Entry(101, STOP_CODE) ELSE EmptyDict,
                   IF t4 - started >= HOLD_SECONDS THEN Entry(3501, 1) ELSE EmptyDict)
       ELSE IF overall < 2 THEN Entry(3501, 0) ELSE EmptyDict

\* Mutant of control_writes: a running machine is affirmed at level 2 as well.
control_writes_affirm(level3502, overall, cur, trigger, t3, t4) ==
    LET started == control_trigger_start(level3502, trigger, t3)
    IN IF level3502 = 3
       THEN Update(IF cur # STOP_CODE THEN Entry(101, STOP_CODE) ELSE EmptyDict,
                   IF t4 - started >= HOLD_SECONDS THEN Entry(3501, 1) ELSE EmptyDict)
       ELSE IF cur = STOP_CODE THEN Entry(3501, 1) ELSE Entry(3501, 0)

\* Mutant of control_writes: at level 3 the stop code is sent in every call.
control_writes_resend(level3502, overall, cur, trigger, t3, t4) ==
    LET started == control_trigger_start(level3502, trigger, t3)
    IN IF level3502 = 3
       THEN Update(Entry(101, STOP_CODE),
                   IF t4 - started >= HOLD_SECONDS THEN Entry(3501, 1) ELSE EmptyDict)
       ELSE IF cur = STOP_CODE
            THEN Entry(3501, 1)
            ELSE IF overall < 2 THEN Entry(3501, 0) ELSE EmptyDict

\* Lines 209-256: what step 4 writes to 101 and 3501.
control_writes(level3502, overall, cur, trigger, t3, t4) ==
    LET is_level_3_alarm == (level3502 = 3)
        is_stopped_state == (cur = STOP_CODE)
        started == control_trigger_start(level3502, trigger, t3)
        elapsed_l3 == t4 - started
    IN IF is_level_3_alarm
       THEN Update(IF ~is_stopped_state THEN Entry(101, STOP_CODE) ELSE EmptyDict,
                   IF elapsed_l3 >= HOLD_SECONDS THEN Entry(3501, 1) ELSE EmptyDict)
       ELSE IF is_stopped_state
            THEN Entry(3501, 1)
            ELSE IF overall < 2 THEN Entry(3501, 0) ELSE EmptyDict

\* Mutant of indicator_writes: the clear does not wait for the hold time.
indicator_writes_eager(latched, cur, changed_at, t5) ==
    IF latched = 0 /\ cur = RUN_CODE /\ changed_at # None
    THEN Entry(43501, 0)
    ELSE EmptyDict

\* Lines 261-264: the delayed clear of the indicator.
indicator_writes(latched, cur, changed_at, t5) ==
    IF latched = 0 /\ cur = RUN_CODE /\ changed_at # None
       /\ t5 - changed_at >= HOLD_SECONDS
    THEN Entry(43501, 0)
    ELSE EmptyDict

\* Mutant of build_rtu_registers: with the latch at 1 step 4 still runs its
\* timer, and only the write set is cut down to 43501.
build_rtu_registers_through(mem, state, obs, t) ==
    LET cur == sync_current(mem.current, obs)
        changed_at == sync_changed_at(mem.current, mem.changed_at, obs, t[1])
        trig_sync == sync_trigger_start(mem.current, mem.trigger_start, obs)
        latched == update_43501_latched(cur, changed_at, mem.latched, t[2])
        status == status_registers(state)
        overall == overall_alarm_level(state)
    IN [current |-> cur, changed_at |-> changed_at,
        trigger_start |-> control_trigger_start(status[3502], trig_sync, t[3]),
        latched |-> latched, trig_sync |-> trig_sync,
        registers |->
           IF latched = 1 THEN Entry(43501, 1)
           ELSE Update(Update(status,
                              control_writes(status[3502], overall, cur, trig_sync,
                                             t[3], t[4])),
                       indicator_writes(latched, cur, changed_at, t[5]))]

\* Mutant of build_rtu_registers: a call that writes 101=82 remembers the
\* stop code as if it had been read back.
build_rtu_registers_self_sync(mem, state, obs, t) ==
    LET cur == sync_current(mem.current, obs)
        changed_at == sync_changed_at(mem.current, mem.changed_at, obs, t[1])
        trig_sync == sync_trigger_start(mem.current, mem.trigger_start, obs)
        latched == update_43501_latched(cur, changed_at, mem.latched, t[2])
        status == status_registers(state)
        overall == overall_alarm_level(state)
        control == control_writes(status[3502], overall, cur, trig_sync, t[3], t[4])
        sent == Has(control, 101, STOP_CODE)
    IN IF latched = 1
       THEN [current |-> cur, changed_at |-> changed_at, trigger_start |-> trig_sync,
             latched |-> latched, trig_sync |-> trig_sync,
             registers |-> Entry(43501, 1)]
       ELSE [current |-> IF sent THEN STOP_CODE ELSE cur,
             changed_at |-> IF sent THEN t[4] ELSE changed_at,
             trigger_start |-> control_trigger_start(status[3502], trig_sync, t[3]),
             latched |-> latched, trig_sync |-> trig_sync,
             registers |->
                Update(Update(status, control),
                       indicator_writes(latched, cur, changed_at, t[5]))]

\* Lines 109-266: the whole call, as the memory it leaves and the dict it returns.
build_rtu_registers(mem, state, obs, t) ==
    LET cur == sync_current(mem.current, obs)
        changed_at == sync_changed_at(mem.current, mem.changed_at, obs, t[1])
        trig_sync == sync_trigger_start(mem.current, mem.trigger_start, obs)
        latched == update_43501_latched(cur, changed_at, mem.latched, t[2])
        status == status_registers(state)
        overall == overall_alarm_level(state)
    IN IF latched = 1
       THEN [current |-> cur, changed_at |-> changed_at, trigger_start |-> trig_sync,
             latched |-> latched, trig_sync |-> trig_sync,
             registers |-> Entry(43501, 1)]
       ELSE [current |-> cur, changed_at |-> changed_at,
             trigger_start |-> control_trigger_start(status[3502], trig_sync, t[3]),
             latched |-> latched, trig_sync |-> trig_sync,
             registers |->
                Update(Update(status,
                              control_writes(status[3502], overall, cur, trig_sync, t[3], t[4])),
                       indicator_writes(latched, cur, changed_at, t[5]))]

-----------------------------------------------------------------------------
(*                     The alarm engine as a state machine                 *)

Memory == [current |-> g_101_current, changed_at |-> g_101_changed_at,
           trigger_start |-> g_101_trigger_start, latched |-> g_43501_latched]

\* Values the caller may pass as current_rtu_101: nothing, run, stop, or
\* another register content.
ObservedValues == {None, RUN_CODE, STOP_CODE, 0}

\* Snapshots the state machine is driven with: one per overall level and per
\* way of reaching it.
ScenarioStates ==
    { DefaultState,
      [DefaultState EXCEPT !.loadpos_ok = FALSE],
      [DefaultState EXCEPT !.belt_level = 3, !.elec_phase_a_ok = FALSE],
      [DefaultState EXCEPT !.crank_left_level = 3] }

\* The clock reads of one call: five non-decreasing values, the first at most
\* MaxGapTicks after the previous read, the last at most MaxCallTicks after
\* the first.
Grid == {k * TickSeconds : k \in 0..MaxTicks}

CallOffsets ==
    {off \in [1..5 -> 0..MaxCallTicks] :
        off[1] = 0 /\ \A i \in 1..4 : off[i] <= off[i + 1]}

ClockReads ==
    {t \in {[i \in 1..5 |-> now + (go[1] + go[2][i]) * TickSeconds] :
                go \in (0..MaxGapTicks) \X CallOffsets} :
        t[5] \in Grid}

NoCall == [called |-> FALSE, state |-> DefaultState, obs |-> None,
           t |-> [i \in 1..5 |-> 0], trig_sync |-> None, latched_before |-> None,
           sync |-> "same", registers |-> EmptyDict]

\* History variable for the scenario of lines 270-310. "stop_latched": a call
\* at level 3 wrote 3501=1 (the timer had run HOLD_SECONDS) with 101 remembered
\* as the stop code, and 101 has been remembered as the stop code since.
\* "overridden": the run code was then observed. "resumed": this call is the
\* first one with an overall level below 2 since the run code was observed.
next_scenario(s, cur, state, registers) ==
    IF cur = STOP_CODE
    THEN IF s = "stop_latched"
            \/ (Has(registers, 3502, 3) /\ Has(registers, 3501, 1))
         THEN "stop_latched"
         ELSE "none"
    ELSE IF cur = RUN_CODE /\ s \in {"stop_latched", "overridden"}
         THEN IF overall_alarm_level(state) < 2 THEN "resumed" ELSE "overridden"
         ELSE "none"

InitAlarm ==
    /\ g_101_trigger_start = None
    /\ g_101_current = None
    /\ g_101_changed_at = None
    /\ g_43501_latched = None
    /\ now = 0
    /\ last = NoCall
    /\ scenario = "none"
    /\ lv_phase = 0

\* History: what the sync step of the call did. "cleared": it took over an
\* observed run code and unset a running timer; "changed": it took over an
\* observed value; "same": it left the memory alone.
sync_effect(cur, trigger, obs) ==
    IF obs = None \/ cur = obs THEN "same"
    ELSE IF obs = RUN_CODE /\ trigger # None THEN "cleared"
    ELSE "changed"

Evaluate(state, obs, t) ==
    \E r \in {build_rtu_registers(Memory, state, obs, t)} :
       /\ g_101_current' = r.current
       /\ g_101_changed_at' = r.changed_at
       /\ g_101_trigger_start' = r.trigger_start
       /\ g_43501_latched' = r.latched
       /\ now' = t[5]
       /\ last' = [called |-> TRUE, state |-> state, obs |-> obs, t |-> t,
                   trig_sync |-> r.trig_sync, latched_before |-> g_43501_latched,
                   sync |-> sync_effect(g_101_current, g_101_trigger_start, obs),
                   registers |-> r.registers]
       /\ scenario' = next_scenario(scenario, r.current, state, r.registers)

NextAlarm ==
    /\ \E state \in ScenarioStates, obs \in ObservedValues, t \in ClockReads :
          Evaluate(state, obs, t)
    /\ UNCHANGED lv_phase
    /\ UNCHANGED <<thVars, trVars, engVars, fsVars, asVars, seVars, brVars>>

\* A caller that never reads the stop code back: it passes nothing, the run
\* code or another register content.
UnconfirmedValues == ObservedValues \ {STOP_CODE}

NextUnconfirmed ==
    /\ \E state \in ScenarioStates, obs \in UnconfirmedValues, t \in ClockReads :
          Evaluate(state, obs, t)
    /\ UNCHANGED lv_phase
    /\ UNCHANGED <<thVars, trVars, engVars, fsVars, asVars, seVars, brVars>>

-----------------------------------------------------------------------------
(* The engine over the snapshots: a first call that may observe 101, then  *)
(* a second call, at once or after the hold time, with any snapshot.       *)

PhaseFields == {"elec_phase_a_ok", "elec_phase_b_ok", "elec_phase_c_ok"}

HotLevels ==
    UNION {[H -> 1..(TopLevel + 1)] :
              H \in {X \in SUBSET LevelFields : Cardinality(X) <= MaxHot}}

LevelSnapshots ==
    {[f \in DOMAIN DefaultState |->
         IF f \in DOMAIN x[1] THEN x[1][f]
         ELSE IF f \in LevelFields THEN 0
         ELSE IF f = "loadpos_ok" THEN x[3]
         ELSE x[2][f]] :
        x \in HotLevels \X [PhaseFields -> BOOLEAN] \X BOOLEAN}

ConstantReads(time) == [i \in 1..5 |-> time]

FirstCall ==
    /\ lv_phase = 0
    /\ \E obs \in {None, RUN_CODE, STOP_CODE} :
          Evaluate(DefaultState, obs, ConstantReads(now))
    /\ lv_phase' = 1
    /\ UNCHANGED <<thVars, trVars, engVars, fsVars, asVars, seVars, brVars>>

SecondCall ==
    /\ lv_phase = 1
    /\ \E state \in LevelSnapshots, gap \in {0, MaxGapTicks} :
          Evaluate(state, None, ConstantReads(now + gap * TickSeconds))
    /\ lv_phase' = 2
    /\ UNCHANGED <<thVars, trVars, engVars, fsVars, asVars, seVars, brVars>>

NextLevels == FirstCall \/ SecondCall

-----------------------------------------------------------------------------
(*                 ThresholdAnalyzer (threshold_analyzer.py)               *)
(* Samples and thresholds are integers and every comparison of the source  *)
(* is made exactly: a mean is kept as its sum and its count, the tolerance *)
(* as TolNum / TolDen and the ratio 1.2 as RatioNum / RatioDen.            *)

TolDen == 10
RatioNum == 6
RatioDen == 5

\* Bounds of the configurations: window_size, min_spike_count and
\* baseline_window each range over 1..their bound.
MaxWindow == 3
MaxSpike == 3
MaxBaseline == 3
\* Samples of level3 + 1 fed under SpecSustained.
MaxHigh == 4

ThresholdConfig(l1, l2, l3, w, m, bw, tol) ==
    [level1 |-> l1, level2 |-> l2, level3 |-> l3, window_size |-> w,
     min_spike_count |-> m, baseline_window |-> bw, baseline_tol_num |-> tol]

\* Thresholds of the usage examples (10/20/30) and a narrow triple; the
\* default tolerance 0.1 and a wide one, 0.5.
Configs ==
    {ThresholdConfig(l[1], l[2], l[3], w, m, bw, tol) :
        l \in {<<10, 20, 30>>, <<10, 11, 12>>},
        w \in 1..MaxWindow, m \in 1..MaxSpike, bw \in 1..MaxBaseline,
        tol \in {1, 5}}

\* Mutant of deque_append: a full buffer keeps its oldest sample and drops
\* the new one.
deque_append_keep_oldest(buf, value, maxlen) ==
    IF Len(buf) < maxlen THEN Append(buf, value) ELSE buf

\* collections.deque(maxlen=...).append
deque_append(buf, value, maxlen) ==
    IF Len(buf) < maxlen THEN Append(buf, value) ELSE Append(Tail(buf), value)

RECURSIVE SeqSum(_)
SeqSum(q) == IF q = << >> THEN 0 ELSE Head(q) + SeqSum(Tail(q))

RECURSIVE SeqMax(_)
SeqMax(q) == IF Len(q) = 1 THEN q[1] ELSE Max(Head(q), SeqMax(Tail(q)))

RECURSIVE SeqMin(_)
SeqMin(q) == IF Len(q) = 1 THEN q[1] ELSE Min(Head(q), SeqMin(Tail(q)))

Mean(buf) == [defined |-> TRUE, sum |-> SeqSum(buf), len |-> Len(buf)]

NoBaseline == [defined |-> FALSE, sum |-> 0, len |-> 1]

\* Lines 66-70: the baseline after the new value went into the buffer `buf`.
update_baseline(cfg, buf, baseline) ==
    IF Len(buf) = cfg.baseline_window THEN Mean(buf) ELSE baseline

\* Lines 72-83: spread <= baseline_tol * mean, on a full window of non-zero mean.
is_stable(cfg, buf) ==
    IF Len(buf) < cfg.baseline_window THEN FALSE
    ELSE IF SeqSum(buf) = 0 THEN FALSE
    ELSE (SeqMax(buf) - SeqMin(buf)) * TolDen * Len(buf)
            <= cfg.baseline_tol_num * SeqSum(buf)

\* Lines 85-87.
count_over_threshold(history, threshold) ==
    Cardinality({i \in 1..Len(history) : history[i] >= threshold})

\* Mutant of select_level: one sample over a threshold is enough.
select_level_single(cfg, history) ==
    IF count_over_threshold(history, cfg.level3) >= 1 THEN 3
    ELSE IF count_over_threshold(history, cfg.level2) >= 1 THEN 2
    ELSE IF count_over_threshold(history, cfg.level1) >= 1 THEN 1
    ELSE 0

\* Mutant of select_level: the lowest threshold met is reported.
select_level_lowest(cfg, history) ==
    LET c1 == count_over_threshold(history, cfg.level1)
        c2 == count_over_threshold(history, cfg.level2)
        c3 == count_over_threshold(history, cfg.level3)
    IN IF c1 >= cfg.min_spike_count THEN 1
       ELSE IF c2 >= cfg.min_spike_count THEN 2
       ELSE IF c3 >= cfg.min_spike_count THEN 3
       ELSE 0

\* Lines 96-111: the highest threshold met min_spike_count times.
select_level(cfg, history) ==
    LET c1 == count_over_threshold(history, cfg.level1)
        c2 == count_over_threshold(history, cfg.level2)
        c3 == count_over_threshold(history, cfg.level3)
    IN IF c3 >= cfg.min_spike_count THEN 3
       ELSE IF c2 >= cfg.min_spike_count THEN 2
       ELSE IF c1 >= cfg.min_spike_count THEN 1
       ELSE 0

\* Lines 117-119: value / baseline < 1.2, the ratio being 0.0 for a zero baseline.
ratio_below(value, baseline) ==
    IF baseline.sum = 0 THEN TRUE
    ELSE IF baseline.sum > 0
         THEN RatioDen * value * baseline.len < RatioNum * baseline.sum
         ELSE RatioDen * value * baseline.len > RatioNum * baseline.sum

\* Mutant of guard_level: the guard does not ask for a stable window.
guard_level_unstable(cfg, level, value, baseline, buf) ==
    IF level > 0 /\ baseline.defined /\ ratio_below(value, baseline)
    THEN 0
    ELSE level

\* Lines 113-120: the spike-ratio guard.
guard_level(cfg, level, value, baseline, buf) ==
    IF level > 0 /\ baseline.defined /\ is_stable(cfg, buf) /\ ratio_below(value, baseline)
    THEN 0
    ELSE level

\* Lines 89-122: ThresholdAnalyzer.update, as the analyzer it leaves and the
\* ThresholdResult it returns.
analyzer_update(cfg, a, value) ==
    LET buf == deque_append(a.baseline_buf, value, cfg.baseline_window)
        baseline == update_baseline(cfg, buf, a.baseline)
        history == deque_append(a.history, value, cfg.window_size)
        level == guard_level(cfg, select_level(cfg, history), value, baseline, buf)
    IN [history |-> history, baseline_buf |-> buf, baseline |-> baseline,
        result |-> [called |-> TRUE, level |-> level, value |-> value,
                    baseline |-> baseline]]

Analyzer == [history |-> th_history, baseline_buf |-> th_baseline_buf,
             baseline |-> th_baseline]

NoResult == [called |-> FALSE, level |-> 0, value |-> 0, baseline |-> NoBaseline]

NotFed == [flat |-> 0, high |-> 0, b |-> 0, log |-> << >>]

\* Lines 56-60: ThresholdAnalyzer.__init__ with the configuration cfg.
NewAnalyzer(cfg) ==
    /\ th_cfg = cfg
    /\ th_history = << >>
    /\ th_baseline_buf = << >>
    /\ th_baseline = NoBaseline
    /\ th_result = NoResult
    /\ th_fed = NotFed

\* No MultiChannelThresholdAnalyzer is in use.
NoMulti == [track |-> "x", n |-> 0, values |-> << >>, run |-> << >>]

\* The analyzer is not used: the state under the other specifications.
ThIdle == NewAnalyzer(ThresholdConfig(10, 20, 30, 1, 1, 1, 1)) /\ th_multi = NoMulti

InitClassifier == (\E cfg \in Configs : NewAnalyzer(cfg)) /\ th_multi = NoMulti

\* Samples fed: nothing, just below level1, level1 and level2 themselves,
\* above level3.
SampleValues(cfg) == {0, cfg.level1 - 1, cfg.level1, cfg.level2, cfg.level3 + 1}

AnalyzerUpdate(value) ==
    \E r \in {analyzer_update(th_cfg, Analyzer, value)} :
       /\ th_history' = r.history
       /\ th_baseline_buf' = r.baseline_buf
       /\ th_baseline' = r.baseline
       /\ th_result' = r.result
       /\ UNCHANGED <<th_cfg, th_multi>>

NextClassifier ==
    /\ \E value \in SampleValues(th_cfg) : AnalyzerUpdate(value)
    /\ UNCHANGED th_fed
    /\ UNCHANGED <<alarmVars, trVars, engVars, fsVars, asVars, seVars, brVars>>

\* A sustained fault: equal positive samples below level1 until both windows
\* are full of them, then samples of level3 + 1.
FlatValues(cfg) == {1, cfg.level1 - 1}

FeedBaseline ==
    /\ th_fed.high = 0
    /\ th_fed.flat < Max(th_cfg.window_size, th_cfg.baseline_window)
    /\ \E b \in FlatValues(th_cfg) :
          /\ th_fed.flat > 0 => b = th_fed.b
          /\ AnalyzerUpdate(b)
          /\ th_fed' = [th_fed EXCEPT !.flat = @ + 1, !.b = b]
    /\ UNCHANGED <<alarmVars, trVars, engVars, fsVars, asVars, seVars, brVars>>

FeedHigh ==
    /\ th_fed.flat >= th_cfg.baseline_window
    /\ th_fed.high < MaxHigh
    /\ AnalyzerUpdate(th_cfg.level3 + 1)
    /\ th_fed' = [th_fed EXCEPT !.high = @ + 1]
    /\ UNCHANGED <<alarmVars, trVars, engVars, fsVars, asVars, seVars, brVars>>

NextSustained == FeedBaseline \/ FeedHigh

\* One analyzer under a recorded sequence of samples: th_fed.log holds every
\* value passed to update, in the order of the calls.
MaxFeed == 5

FeedValues(cfg) == {0, cfg.level1, cfg.level3 + 1}

Feed(value) ==
    /\ Len(th_fed.log) < MaxFeed
    /\ AnalyzerUpdate(value)
    /\ th_fed' = [th_fed EXCEPT !.log = Append(@, value)]
    /\ UNCHANGED <<alarmVars, trVars, engVars, fsVars, asVars, seVars, brVars>>

NextBuffers == \E value \in FeedValues(th_cfg) : Feed(value)

-----------------------------------------------------------------------------
(*        ModbusRtuClient (vibration_monitor_1.py, vibration_monitor_ui.py) *)
(* Bytes are integers in 0..255 and a byte string is a sequence of them.    *)

\* Lines 54 and 60: the seed 0xFFFF and the polynomial 0xA001.
CRC_SEED == 65535
CRC_POLY == 40961
\* Line 100: the address limit 0xFFFF and the register count limit.
MAX_ADDRESS == 65535
MAX_COUNT == 125
\* Lines 83 and 103: the exception bit 0x80 and the function code.
EXCEPTION_BIT == 128
READ_HOLDING == 3

\* The slave answers with the data of at most MaxRegs registers.
MaxRegs == 2

Threads == {1, 2}
NoThread == 0
UnitIds == {1, 2}

RECURSIVE BitXor(_, _)
BitXor(a, b) ==
    IF a = 0 THEN b
    ELSE IF b = 0 THEN a
    ELSE (((a % 2) + (b % 2)) % 2) + 2 * BitXor(a \div 2, b \div 2)

\* Lines 58-62: one round of the inner loop.
crc_shift(crc) ==
    IF crc % 2 = 1 THEN BitXor(crc \div 2, CRC_POLY) ELSE crc \div 2

\* Lines 56-62: one byte.
crc_byte(crc, ch) ==
    crc_shift(crc_shift(crc_shift(crc_shift(
    crc_shift(crc_shift(crc_shift(crc_shift(BitXor(crc, ch)))))))))

RECURSIVE crc_bytes(_, _)
crc_bytes(crc, data) ==
    IF data = << >> THEN crc
    ELSE CHOOSE r \in {crc_bytes(c, Tail(data)) : c \in {crc_byte(crc, Head(data))}} : TRUE

\* Lines 52-63: ModbusRtuClient._crc16.
crc16(data) == crc_bytes(CRC_SEED, data) % 65536

\* struct.pack('<H', x), struct.unpack('<H', b) and struct.unpack('>H', b).
pack_le_H(x) == <<x % 256, x \div 256>>
\* Mutant of unpack_be_H: the low byte is taken first.
unpack_be_H_swapped(b) == b[1] + 256 * b[2]
unpack_be_H(b) == 256 * b[1] + b[2]
\* Mutant of unpack_le_H: the high byte is taken first.
unpack_le_H_swapped(b) == 256 * b[1] + b[2]
unpack_le_H(b) == b[1] + 256 * b[2]

\* Line 103: struct.pack('>BHH', func, address, count).
pack_BHH(func, address, count) ==
    <<func, address \div 256, address % 256, count \div 256, count % 256>>

\* Mutant of valid_arguments: the count limit is off by one.
valid_arguments_loose(address, count) ==
    0 <= address /\ address <= MAX_ADDRESS /\ 1 <= count /\ count <= MAX_COUNT + 1

\* Line 100.
valid_arguments(address, count) ==
    0 <= address /\ address <= MAX_ADDRESS /\ 1 <= count /\ count <= MAX_COUNT

\* Lines 70-71: the request frame.
request_frame(unit_id, pdu) ==
    <<unit_id>> \o pdu \o pack_le_H(crc16(<<unit_id>> \o pdu))

\* serial.Serial.read(n) at its timeout: the bytes it returns and those it leaves.
Take(buf, n) == SubSeq(buf, 1, Min(n, Len(buf)))
Drop(buf, n) == SubSeq(buf, Min(n, Len(buf)) + 1, Len(buf))

Failure(kind, rx, reads) == [kind |-> kind, resp |-> << >>, rx |-> rx, reads |-> reads]

\* Line 92: the CRC the frame carries.
received_crc(data_and_crc) ==
    unpack_le_H(SubSeq(data_and_crc, Len(data_and_crc) - 1, Len(data_and_crc)))

\* Mutant of receive: the exception bit is looked at before the address.
receive_exception_first(unit_id, rx) ==
    LET header == Take(rx, 3)
        after_header == Drop(rx, 3)
    IN IF Len(header) < 3
       THEN Failure("TimeoutHeader", after_header, <<3>>)
       ELSE IF header[2] >= EXCEPTION_BIT
       THEN Failure("RemoteException", Drop(after_header, 1), <<3, 1>>)
       ELSE IF header[1] # unit_id
       THEN Failure("AddressMismatch", after_header, <<3>>)
       ELSE LET n == header[3] + 2
                data_and_crc == Take(after_header, n)
                data == SubSeq(data_and_crc, 1, Len(data_and_crc) - 2)
            IN IF Len(data_and_crc) < n
               THEN Failure("TimeoutData", Drop(after_header, n), <<3, n>>)
               ELSE IF crc16(header \o data) # received_crc(data_and_crc)
               THEN Failure("ChecksumError", Drop(after_header, n), <<3, n>>)
               ELSE [kind |-> "OK", resp |-> <<header[2], header[3]>> \o data,
                     rx |-> Drop(after_header, n), reads |-> <<3, n>>]

\* Lines 76-97: the reads of _send_and_recv and its checks, in their order.
receive(unit_id, rx) ==
    LET header == Take(rx, 3)
        after_header == Drop(rx, 3)
    IN IF Len(header) < 3
       THEN Failure("TimeoutHeader", after_header, <<3>>)
       ELSE IF header[1] # unit_id
       THEN Failure("AddressMismatch", after_header, <<3>>)
       ELSE IF header[2] >= EXCEPTION_BIT
       THEN Failure("RemoteException", Drop(after_header, 1), <<3, 1>>)
       ELSE LET n == header[3] + 2
                data_and_crc == Take(after_header, n)
                data == SubSeq(data_and_crc, 1, Len(data_and_crc) - 2)
            IN IF Len(data_and_crc) < n
               THEN Failure("TimeoutData", Drop(after_header, n), <<3, n>>)
               ELSE IF crc16(header \o data) # received_crc(data_and_crc)
               THEN Failure("ChecksumError", Drop(after_header, n), <<3, n>>)
               ELSE [kind |-> "OK", resp |-> <<header[2], header[3]>> \o data,
                     rx |-> Drop(after_header, n), reads |-> <<3, n>>]

\* Lines 111-115: the registers, big-endian, in request order.
decode_registers(data, byte_count) ==
    [i \in 1..((byte_count + 1) \div 2) |->
        unpack_be_H(SubSeq(data, 2 * i - 1, 2 * i))]

\* Lines 105-115: what read_holding_registers makes of the PDU returned.
decode(resp, count) ==
    LET func == resp[1]
        byte_count == resp[2]
    IN IF func # READ_HOLDING THEN [kind |-> "UnexpectedFunction", regs |-> << >>]
       ELSE IF byte_count # count * 2 THEN [kind |-> "ByteCountMismatch", regs |-> << >>]
       ELSE [kind |-> "OK",
             regs |-> decode_registers(SubSeq(resp, 3, 2 + byte_count), byte_count)]

\* unit_id: history, the slave id this thread assigned last (0: none yet).
NoRequest == [called |-> FALSE, address |-> 0, count |-> 1, unit_id |-> 0]
NoOutcome == [kind |-> "none", regs |-> << >>, seen |-> << >>, unit_id |-> 0]

\* Lines 29-43: a client on an open port, nothing sent or received yet.
InitTransport ==
    /\ tr_lock = NoThread
    /\ tr_unit_id = 1
    /\ tr_pc = [th \in Threads |-> "idle"]
    /\ tr_req = [th \in Threads |-> NoRequest]
    /\ tr_result = [th \in Threads |-> NoOutcome]
    /\ tr_ops = [th \in Threads |-> << >>]
    /\ tr_rx = << >>
    /\ tr_tx = << >>

\* Arguments of a call: the limits of line 100 and their neighbours.
Addresses == {-1, 0, MAX_ADDRESS, MAX_ADDRESS + 1}
Counts == {0, MAX_COUNT, MAX_COUNT + 1} \cup (1..MaxRegs)

\* The caller sets the slave to talk to (sensor_service.py line 74,
\* vibration_monitor_1.py _poll_loop) before it calls.
SetUnitId(th, unit_id) ==
    /\ tr_pc[th] = "idle"
    /\ tr_unit_id' = unit_id
    /\ tr_req' = [tr_req EXCEPT ![th].unit_id = unit_id]
    /\ UNCHANGED <<tr_lock, tr_pc, tr_result, tr_ops, tr_rx, tr_tx>>
    /\ UNCHANGED <<alarmVars, thVars, engVars, fsVars, asVars, seVars, brVars>>

\* Lines 99-103: the call starts; bad arguments end it at once.
Call(th, address, count) ==
    /\ tr_pc[th] = "idle"
    /\ tr_req' = [tr_req EXCEPT ![th] = [called |-> TRUE, address |-> address,
                                           count |-> count,
                                           unit_id |-> tr_req[th].unit_id]]
    /\ tr_ops' = [tr_ops EXCEPT ![th] = << >>]
    /\ IF valid_arguments(address, count)
       THEN /\ tr_pc' = [tr_pc EXCEPT ![th] = "lock"]
            /\ tr_result' = [tr_result EXCEPT ![th] = NoOutcome]
       ELSE /\ tr_pc' = tr_pc
            /\ tr_result' = [tr_result EXCEPT ![th] =
                                [NoOutcome EXCEPT !.kind = "InvalidArgument"]]
    /\ UNCHANGED <<tr_lock, tr_unit_id, tr_rx, tr_tx>>
    /\ UNCHANGED <<alarmVars, thVars, engVars, fsVars, asVars, seVars, brVars>>

\* Mutant of Send: the exchange starts without waiting for the lock.
Send_unlocked(th) ==
    /\ tr_pc[th] = "lock"
    /\ tr_lock' = th
    /\ tr_tx' = request_frame(tr_unit_id,
                               pack_BHH(READ_HOLDING, tr_req[th].address, tr_req[th].count))
    /\ tr_rx' = << >>
    /\ tr_ops' = [tr_ops EXCEPT ![th] = <<"lock", "reset_input_buffer", "write", "flush">>]
    /\ tr_pc' = [tr_pc EXCEPT ![th] = "recv"]
    /\ UNCHANGED <<tr_unit_id, tr_req, tr_result>>
    /\ UNCHANGED <<alarmVars, thVars, engVars, fsVars, asVars, seVars, brVars>>

\* Lines 66-74: take the lock, frame the request, drop stale input, write.
Send(th) ==
    /\ tr_pc[th] = "lock"
    /\ tr_lock = NoThread
    /\ tr_lock' = th
    /\ tr_tx' = request_frame(tr_unit_id,
                               pack_BHH(READ_HOLDING, tr_req[th].address, tr_req[th].count))
    /\ tr_rx' = << >>
    /\ tr_ops' = [tr_ops EXCEPT ![th] = <<"lock", "reset_input_buffer", "write", "flush">>]
    /\ tr_pc' = [tr_pc EXCEPT ![th] = "recv"]
    /\ UNCHANGED <<tr_unit_id, tr_req, tr_result>>
    /\ UNCHANGED <<alarmVars, thVars, engVars, fsVars, asVars, seVars, brVars>>

\* Bytes a slave, or the line, may put behind a header.
DataPatterns == {0, 1, 2}
DataByte(pattern, i) ==
    IF pattern = 0 THEN 0 ELSE IF pattern = 1 THEN 255 ELSE (17 * i) % 256

\* The two bytes that end a frame: the CRC of what precedes, low byte first,
\* or that with one byte changed, or with the two bytes swapped.
Trailers(prefix) ==
    LET good == pack_le_H(crc16(prefix))
    IN {good, <<(good[1] + 1) % 256, good[2]>>, <<good[1], (good[2] + 1) % 256>>,
        <<good[2], good[1]>>}

\* What may arrive before the timeout: any prefix of a frame with any
\* address, function code, byte count, data and trailer.
Responses ==
    UNION {{Take(x[1] \o tr, n) : tr \in Trailers(x[1]), n \in 1..(Len(x[1]) + 2)} :
        x \in {<<<<addr, func, 2 * k>> \o [i \in 1..(2 * k) |-> DataByte(pat, i)]>> :
                  addr \in UnitIds, func \in {READ_HOLDING, 4, EXCEPTION_BIT + READ_HOLDING},
                  k \in 0..MaxRegs, pat \in DataPatterns}}

\* The slave answers the request of th: bytes arrive in the input buffer.
Respond(th, bytes) ==
    /\ tr_pc[th] = "recv"
    /\ tr_rx = << >>
    /\ tr_rx' = bytes
    /\ UNCHANGED <<tr_lock, tr_unit_id, tr_pc, tr_req, tr_result, tr_ops, tr_tx>>
    /\ UNCHANGED <<alarmVars, thVars, engVars, fsVars, asVars, seVars, brVars>>

\* Lines 76-97 and 105-115: read and check the response, release the lock,
\* decode.
Receive(th) ==
    /\ tr_pc[th] = "recv"
    /\ \E r \in {receive(tr_unit_id, tr_rx)} :
          /\ tr_rx' = r.rx
          /\ tr_ops' = [tr_ops EXCEPT ![th] =
                           @ \o [i \in 1..Len(r.reads) |-> "read"] \o <<"unlock">>]
          /\ \E d \in {IF r.kind = "OK" THEN decode(r.resp, tr_req[th].count)
                         ELSE [kind |-> r.kind, regs |-> << >>]} :
                tr_result' = [tr_result EXCEPT ![th] =
                                [kind |-> d.kind, regs |-> d.regs, seen |-> tr_rx,
                                 unit_id |-> tr_unit_id]]
    /\ tr_lock' = NoThread
    /\ tr_pc' = [tr_pc EXCEPT ![th] = "idle"]
    /\ UNCHANGED <<tr_unit_id, tr_req, tr_tx>>
    /\ UNCHANGED <<alarmVars, thVars, engVars, fsVars, asVars, seVars, brVars>>

NextExchange ==
    \/ \E unit_id \in UnitIds : SetUnitId(1, unit_id)
    \/ \E address \in Addresses, count \in Counts : Call(1, address, count)
    \/ Send(1)
    \/ \E bytes \in Responses : Respond(1, bytes)
    \/ Receive(1)

\* Two threads share the client. Each asks for one register, at its own
\* address (or with a count the client refuses), and the port returns a
\* good frame, a frame with a bad CRC, an exception frame, a frame that
\* stops short, or nothing.
BusAddresses == [th \in Threads |-> th - 1]
BusCounts == {0, 1}
BusResponses ==
    {<<1, 3, 2, 17, 34, 52, 13>>, <<1, 3, 2, 17, 34, 53, 13>>,
     <<1, 3, 2, 17, 34>>, <<1, 131, 2, 192, 241>>, <<1>>}

NextBus ==
    \/ \E th \in Threads, unit_id \in UnitIds : SetUnitId(th, unit_id)
    \/ \E th \in Threads, count \in BusCounts : Call(th, BusAddresses[th], count)
    \/ \E th \in Threads : Send(th)
    \/ \E th \in Threads, bytes \in BusResponses : Respond(th, bytes)
    \/ \E th \in Threads : Receive(th)

-----------------------------------------------------------------------------
(*        build_rtu_registers called from several threads at once          *)
(* alarm_logic.py keeps the engine memory in module globals and takes no   *)
(* lock. A call is a sequence of steps, each reading or writing the        *)
(* globals at most once per global; steps of different threads interleave. *)

NoEngCall == [state |-> DefaultState, obs |-> None, latched |-> None,
              stopped |-> FALSE, registers |-> EmptyDict]
NoEngResult == [kind |-> "none", registers |-> EmptyDict]

EngIdle ==
    /\ eng_pc = [th \in Threads |-> "idle"]
    /\ eng_call = [th \in Threads |-> NoEngCall]
    /\ eng_result = [th \in Threads |-> NoEngResult]

EngFrame == UNCHANGED <<last, scenario, lv_phase, thVars, trVars, fsVars, asVars, seVars, brVars>>

\* Line 109: a thread enters build_rtu_registers.
EngBegin(th, state, obs) ==
    /\ eng_pc[th] = "idle"
    /\ eng_pc' = [eng_pc EXCEPT ![th] = "sync"]
    /\ eng_call' = [eng_call EXCEPT ![th] = [NoEngCall EXCEPT !.state = state, !.obs = obs]]
    /\ eng_result' = [eng_result EXCEPT ![th] = NoEngResult]
    /\ UNCHANGED <<g_101_trigger_start, g_101_current, g_101_changed_at,
                   g_43501_latched, now>>
    /\ EngFrame

\* Lines 121-128: step 0.
EngSync(th) ==
    /\ eng_pc[th] = "sync"
    /\ g_101_current' = sync_current(g_101_current, eng_call[th].obs)
    /\ g_101_changed_at' = sync_changed_at(g_101_current, g_101_changed_at,
                                           eng_call[th].obs, now)
    /\ g_101_trigger_start' = sync_trigger_start(g_101_current, g_101_trigger_start,
                                                 eng_call[th].obs)
    /\ eng_pc' = [eng_pc EXCEPT ![th] = "latch"]
    /\ UNCHANGED <<g_43501_latched, now, eng_call, eng_result>>
    /\ EngFrame

\* Lines 133-202: the latch, the short-circuit, the status registers.
EngLatch(th) ==
    /\ eng_pc[th] = "latch"
    /\ \E latched \in {update_43501_latched(g_101_current, g_101_changed_at,
                                              g_43501_latched, now)} :
          /\ g_43501_latched' = latched
          /\ IF latched = 1
             THEN /\ eng_pc' = [eng_pc EXCEPT ![th] = "idle"]
                  /\ eng_result' = [eng_result EXCEPT ![th] =
                                       [kind |-> "returned", registers |-> Entry(43501, 1)]]
                  /\ eng_call' = eng_call
             ELSE /\ eng_pc' = [eng_pc EXCEPT ![th] = "control"]
                  /\ eng_call' = [eng_call EXCEPT ![th].latched = latched,
                                      ![th].registers = status_registers(eng_call[th].state)]
                  /\ eng_result' = eng_result
    /\ UNCHANGED <<g_101_trigger_start, g_101_current, g_101_changed_at, now>>
    /\ EngFrame

\* Lines 209-216 at level 3: read 101, start the timer if it is not running.
\* Lines 209-256 below level 3: clear the timer, write 3501.
EngControl(th) ==
    /\ eng_pc[th] = "control"
    /\ LET stopped == (g_101_current = STOP_CODE)
           overall == overall_alarm_level(eng_call[th].state)
       IN IF eng_call[th].registers[3502] = 3
          THEN /\ g_101_trigger_start' =
                     (IF g_101_trigger_start = None THEN now ELSE g_101_trigger_start)
               /\ eng_call' = [eng_call EXCEPT ![th].stopped = stopped]
               /\ eng_pc' = [eng_pc EXCEPT ![th] = "elapsed"]
          ELSE /\ g_101_trigger_start' = None
               /\ eng_call' = [eng_call EXCEPT ![th].stopped = stopped,
                                   ![th].registers =
                                       Update(@, IF stopped THEN Entry(3501, 1)
                                                 ELSE IF overall < 2 THEN Entry(3501, 0)
                                                 ELSE EmptyDict)]
               /\ eng_pc' = [eng_pc EXCEPT ![th] = "indicator"]
    /\ UNCHANGED <<g_101_current, g_101_changed_at, g_43501_latched, now, eng_result>>
    /\ EngFrame

\* Lines 218-228: time.time() - _g_101_trigger_start, a TypeError when the
\* timer is None; then the writes of 101 and 3501.
EngElapsed(th) ==
    /\ eng_pc[th] = "elapsed"
    /\ IF g_101_trigger_start = None
       THEN /\ eng_pc' = [eng_pc EXCEPT ![th] = "idle"]
            /\ eng_result' = [eng_result EXCEPT ![th] =
                                 [kind |-> "TypeError", registers |-> EmptyDict]]
            /\ eng_call' = eng_call
       ELSE /\ eng_pc' = [eng_pc EXCEPT ![th] = "indicator"]
            /\ eng_call' = [eng_call EXCEPT ![th].registers =
                    Update(@, Update(IF ~eng_call[th].stopped THEN Entry(101, STOP_CODE)
                                     ELSE EmptyDict,
                                     IF now - g_101_trigger_start >= HOLD_SECONDS
                                     THEN Entry(3501, 1) ELSE EmptyDict))]
            /\ eng_result' = eng_result
    /\ UNCHANGED <<g_101_trigger_start, g_101_current, g_101_changed_at,
                   g_43501_latched, now>>
    /\ EngFrame

\* Lines 261-266: the delayed clear of the indicator, and the return.
EngIndicator(th) ==
    /\ eng_pc[th] = "indicator"
    /\ eng_pc' = [eng_pc EXCEPT ![th] = "idle"]
    /\ eng_result' = [eng_result EXCEPT ![th] =
            [kind |-> "returned",
             registers |-> Update(eng_call[th].registers,
                                  indicator_writes(eng_call[th].latched, g_101_current,
                                                   g_101_changed_at, now))]]
    /\ UNCHANGED <<g_101_trigger_start, g_101_current, g_101_changed_at,
                   g_43501_latched, now, eng_call>>
    /\ EngFrame

\* time.time() moves on.
EngTick ==
    /\ now + TickSeconds \in Grid
    /\ now' = now + TickSeconds
    /\ UNCHANGED <<g_101_trigger_start, g_101_current, g_101_changed_at,
                   g_43501_latched, engVars>>
    /\ EngFrame

\* The calls of the threads: a quiet snapshot or one at level 3, with 101
\* not read, or read as the run code or the stop code.
ThreadStates ==
    {DefaultState, [DefaultState EXCEPT !.belt_level = 3, !.elec_phase_a_ok = FALSE]}
ThreadObserved == {None, RUN_CODE, STOP_CODE}

NextThreads ==
    \/ \E th \in Threads, state \in ThreadStates, obs \in ThreadObserved :
          EngBegin(th, state, obs)
    \/ \E th \in Threads : EngSync(th)
    \/ \E th \in Threads : EngLatch(th)
    \/ \E th \in Threads : EngControl(th)
    \/ \E th \in Threads : EngElapsed(th)
    \/ \E th \in Threads : EngIndicator(th)
    \/ EngTick

-----------------------------------------------------------------------------
(*      The hand-off file: SensorService._write_state and its readers      *)
(* A path names an inode or nothing; an open file is an inode, whatever    *)
(* the path names later. A file's content is a sequence of text chunks.    *)

\* Calls of _write_state the model follows.
MaxWrites == 3

Locations == {"crank_left", "crank_right", "tail_bearing", "mid_bearing"}
LocationOrder == <<"crank_left", "crank_right", "tail_bearing", "mid_bearing">>

\* pathlib: DEFAULT_STATE_PATH and Path.with_suffix.
STATE_PATH == [stem |-> "/tmp/sensor_fault_state", suffix |-> ".json"]

\* Mutant of with_suffix: the temporary file is the hand-off file itself.
with_suffix_same(path, suffix) == path

with_suffix(path, suffix) == [path EXCEPT !.suffix = suffix]

Paths == {STATE_PATH, with_suffix(STATE_PATH, ".tmp")}

Inodes == 1..3
NoInode == 0

\* Lines 29-41: SensorFaultState as asdict gives it.
LocationFaultState(value, level) == [value |-> value, level |-> level]
SensorFaultState(timestamp, cl, cr, tb, mb) ==
    [timestamp |-> timestamp, crank_left |-> cl, crank_right |-> cr,
     tail_bearing |-> tb, mid_bearing |-> mb]

\* json.dump: an opening brace, one chunk per key in field order, a closing
\* brace. json.load: the dict, or an error for any other text.
json_dump(data) ==
    <<<<"{", 0>>>> \o <<<<"timestamp", data.timestamp>>>>
        \o [i \in 1..Len(LocationOrder) |-> <<LocationOrder[i], data[LocationOrder[i]]>>]
        \o <<<<"}", 0>>>>

ParseError == [error |-> "JSONDecodeError"]

json_load(text) ==
    IF Len(text) >= 2 /\ text[1][1] = "{" /\ text[Len(text)][1] = "}"
          /\ \A i \in 2..(Len(text) - 1) : text[i][1] \notin {"{", "}"}
    THEN [k \in {text[i][1] : i \in 2..(Len(text) - 1)} |->
             text[CHOOSE i \in 2..(Len(text) - 1) : text[i][1] = k][2]]
    ELSE ParseError

FsIdle ==
    /\ as_log = << >>
    /\ as_engine = << >>
    /\ as_rtu = 0
    /\ fs_path = [q \in Paths |-> NoInode]
    /\ fs_inode = [n \in Inodes |-> << >>]
    /\ fs_published = << >>
    /\ ws_pc = "idle"
    /\ ws_doc = << >>
    /\ rd_pc = "idle"
    /\ rd_fd = NoInode
    /\ rd_opened_at = 0
    /\ rd_result = [kind |-> "none"]

FsFrame == UNCHANGED <<alarmVars, thVars, trVars, engVars, asVars, seVars, brVars>>

\* The inodes no path names and no reader has open are gone.
Collect(inodes, paths, fd) ==
    [n \in Inodes |-> IF n = fd \/ \E q \in Paths : paths[q] = n THEN inodes[n] ELSE << >>]

FreeInode(paths, fd) ==
    CHOOSE n \in Inodes : n # fd /\ \A q \in Paths : paths[q] # n

\* What the sensor service hands off at its k-th write: every location
\* quiet, or the left crank at level 3.
HandoffDocs(k) ==
    {SensorFaultState(k, LocationFaultState(v[1], v[2]), LocationFaultState(0, 0),
                      LocationFaultState(0, 0), LocationFaultState(0, 0)) :
        v \in {<<0, 0>>, <<25, 3>>}}

\* Lines 136-137: data = asdict(state); tmp_path = ...with_suffix(".tmp").
WriteBegin(doc) ==
    /\ ws_pc = "idle"
    /\ Len(fs_published) < MaxWrites
    /\ ws_pc' = "open"
    /\ ws_doc' = doc
    /\ UNCHANGED <<fs_path, fs_inode, fs_published, rd_pc, rd_fd, rd_opened_at, rd_result>>
    /\ FsFrame

\* Line 138: open(tmp_path, "w") creates the file or empties it.
WriteOpen ==
    /\ ws_pc = "open"
    /\ LET tmp_path == with_suffix(STATE_PATH, ".tmp")
           n == IF fs_path[tmp_path] # NoInode THEN fs_path[tmp_path]
                ELSE FreeInode(fs_path, rd_fd)
       IN /\ fs_path' = [fs_path EXCEPT ![tmp_path] = n]
          /\ fs_inode' = [fs_inode EXCEPT ![n] = << >>]
    /\ ws_pc' = "write"
    /\ UNCHANGED <<fs_published, ws_doc, rd_pc, rd_fd, rd_opened_at, rd_result>>
    /\ FsFrame

\* Line 139: json.dump reaches the file chunk by chunk; the file is closed
\* after the last one.
WriteChunk ==
    /\ ws_pc = "write"
    /\ LET tmp_path == with_suffix(STATE_PATH, ".tmp")
           n == fs_path[tmp_path]
           text == json_dump(ws_doc)
       IN /\ fs_inode' = [fs_inode EXCEPT ![n] = Append(@, text[Len(@) + 1])]
          /\ ws_pc' = IF Len(fs_inode[n]) + 1 = Len(text) THEN "replace" ELSE "write"
    /\ UNCHANGED <<fs_path, fs_published, ws_doc, rd_pc, rd_fd, rd_opened_at, rd_result>>
    /\ FsFrame

\* Line 140: tmp_path.replace(self._state_path), a rename.
WriteReplace ==
    /\ ws_pc = "replace"
    /\ LET tmp_path == with_suffix(STATE_PATH, ".tmp")
           paths == IF tmp_path = STATE_PATH THEN fs_path
                    ELSE [q \in Paths |-> IF q = STATE_PATH THEN fs_path[tmp_path]
                                          ELSE NoInode]
       IN /\ fs_path' = paths
          /\ fs_inode' = Collect(fs_inode, paths, rd_fd)
    /\ fs_published' = Append(fs_published, ws_doc)
    /\ ws_pc' = "idle"
    /\ UNCHANGED <<ws_doc, rd_pc, rd_fd, rd_opened_at, rd_result>>
    /\ FsFrame

\* alarm_service.py lines 44-48: open the hand-off file; no file, no data.
LoadOpen ==
    /\ rd_pc = "idle"
    /\ rd_opened_at' = Len(fs_published)
    /\ IF fs_path[STATE_PATH] = NoInode
       THEN /\ rd_pc' = "done"
            /\ rd_fd' = NoInode
            /\ rd_result' = [kind |-> "FileNotFoundError"]
       ELSE /\ rd_pc' = "read"
            /\ rd_fd' = fs_path[STATE_PATH]
            /\ rd_result' = [kind |-> "none"]
    /\ UNCHANGED <<fs_path, fs_inode, fs_published, ws_pc, ws_doc>>
    /\ FsFrame

\* alarm_service.py lines 45-51: json.load on the open file, then close.
LoadRead ==
    /\ rd_pc = "read"
    /\ \E data \in {json_load(fs_inode[rd_fd])} :
          rd_result' = IF data = ParseError THEN [kind |-> "JSONDecodeError"]
                       ELSE [kind |-> "loaded", data |-> data]
    /\ rd_pc' = "done"
    /\ rd_fd' = NoInode
    /\ fs_inode' = Collect(fs_inode, fs_path, NoInode)
    /\ UNCHANGED <<fs_path, fs_published, ws_pc, ws_doc, rd_opened_at>>
    /\ FsFrame

\* The reader's next cycle.
LoadAgain ==
    /\ rd_pc = "done"
    /\ rd_pc' = "idle"
    /\ rd_result' = [kind |-> "none"]
    /\ UNCHANGED <<fs_path, fs_inode, fs_published, ws_pc, ws_doc, rd_fd, rd_opened_at>>
    /\ FsFrame

NextHandoff ==
    \/ \E doc \in HandoffDocs(Len(fs_published) + 1) : WriteBegin(doc)
    \/ WriteOpen
    \/ WriteChunk
    \/ WriteReplace
    \/ LoadOpen
    \/ LoadRead
    \/ LoadAgain

-----------------------------------------------------------------------------
(*                    AlarmService (alarm_service.py)                      *)

\* Cycles of run_forever the model follows.
MaxCycles == 2

\* Mutant of load_state: a location the file lacks counts as level 0.
load_state_lenient(result) ==
    IF result.kind # "loaded" THEN [kind |-> "empty"]
    ELSE IF \E loc \in Locations :
               loc \in DOMAIN result.data
                 /\ {"value", "level"} \ DOMAIN result.data[loc] # {}
    THEN [kind |-> "KeyError"]
    ELSE [kind |-> "snapshots",
          levels |-> [loc \in Locations |->
                         IF loc \in DOMAIN result.data THEN result.data[loc].level ELSE 0]]

\* Lines 43-66: _load_state after the read: {} for no file, an unreadable
\* file or a missing location (lines 47-58), a KeyError out of lines 60-65
\* for a location without value or level, the snapshots otherwise.
load_state(result) ==
    IF result.kind # "loaded" THEN [kind |-> "empty"]
    ELSE IF \E loc \in Locations : loc \notin DOMAIN result.data
    THEN [kind |-> "empty"]
    ELSE IF \E loc \in Locations : {"value", "level"} \ DOMAIN result.data[loc] # {}
    THEN [kind |-> "KeyError"]
    ELSE [kind |-> "snapshots",
          levels |-> [loc \in Locations |-> result.data[loc].level]]

\* Texts somebody else may leave at the hand-off path: a whole document, a
\* document cut short, one without a location, one whose location lacks a
\* field, and an empty file.
WholeText == json_dump(SensorFaultState(1, LocationFaultState(25, 3), LocationFaultState(0, 0),
                                        LocationFaultState(0, 0), LocationFaultState(0, 0)))
ForeignTexts ==
    {WholeText, SubSeq(WholeText, 1, 3), << >>,
     SubSeq(WholeText, 1, 5) \o <<WholeText[7]>>,
     [WholeText EXCEPT ![4] = <<"crank_right", [value |-> 0]>>],
     [WholeText EXCEPT ![3] = <<"crank_left", [level |-> 3]>>]}

\* Another program writes the hand-off file in place, or removes it.
Tamper(text) ==
    /\ rd_pc = "idle"
    /\ fs_path' = [fs_path EXCEPT ![STATE_PATH] = 1]
    /\ fs_inode' = [fs_inode EXCEPT ![1] = text]
    /\ UNCHANGED <<fs_published, ws_pc, ws_doc, rd_pc, rd_fd, rd_opened_at, rd_result, asVars>>
    /\ FsFrame

Remove ==
    /\ rd_pc = "idle"
    /\ fs_path[STATE_PATH] # NoInode
    /\ fs_path' = [fs_path EXCEPT ![STATE_PATH] = NoInode]
    /\ fs_inode' = [n \in Inodes |-> << >>]
    /\ UNCHANGED <<fs_published, ws_pc, ws_doc, rd_pc, rd_fd, rd_opened_at, rd_result, asVars>>
    /\ FsFrame

\* Lines 68-82 and 86-95: the rest of _process_once and the end of the cycle
\* in run_forever, which catches whatever _process_once raised.
ProcessOnce ==
    /\ rd_pc = "done"
    /\ \E snapshots \in {load_state(rd_result)} :
          IF snapshots.kind = "snapshots"
          THEN /\ as_engine' = Append(as_engine, snapshots.levels)
               /\ as_rtu' = as_rtu + 1
               /\ as_log' = Append(as_log, "evaluated")
          ELSE /\ as_engine' = as_engine
               /\ as_rtu' = as_rtu
               /\ as_log' = Append(as_log, IF snapshots.kind = "empty"
                                            THEN "skipped" ELSE "error")
    /\ rd_pc' = "idle"
    /\ UNCHANGED <<fs_path, fs_inode, fs_published, ws_pc, ws_doc, rd_fd, rd_opened_at,
                   rd_result>>
    /\ UNCHANGED <<alarmVars, thVars, trVars, engVars, seVars, brVars>>

\* Line 87: the next cycle starts.
CycleOpen ==
    /\ Len(as_log) < MaxCycles
    /\ LoadOpen

NextAlarmService ==
    \/ \E text \in ForeignTexts : Tamper(text)
    \/ Remove
    \/ CycleOpen
    \/ LoadRead
    \/ ProcessOnce

-----------------------------------------------------------------------------
(*   SpeedThresholdEngine (threshold_engine.py) and the acquisition cycle  *)
(*   of SensorService (sensor_service.py)                                  *)

Channels == {"x", "y", "z"}

\* threshold_engine.py lines 56-57 and the defaults of ThresholdConfig.
ENGINE_WINDOW_SIZE == 10
ENGINE_MIN_SPIKE_COUNT == 3
DEFAULT_BASELINE_WINDOW == 50
DEFAULT_BASELINE_TOL == 1

\* threshold_engine.py lines 25-29.
SimpleThresholdConfig(level1, level2, level3) ==
    [level1 |-> level1, level2 |-> level2, level3 |-> level3]

\* sensor_service.py line 59: 5.0, 10.0 and 20.0 mm/s.
SERVICE_LEVEL1 == 5
SERVICE_LEVEL2 == 10
SERVICE_LEVEL3 == 20
ServiceConfig == SimpleThresholdConfig(SERVICE_LEVEL1, SERVICE_LEVEL2, SERVICE_LEVEL3)

\* threshold_engine.py lines 52-58: the ThresholdConfig the engine builds.
engine_config(cfg) ==
    ThresholdConfig(cfg.level1, cfg.level2, cfg.level3, ENGINE_WINDOW_SIZE,
                    ENGINE_MIN_SPIKE_COUNT, DEFAULT_BASELINE_WINDOW, DEFAULT_BASELINE_TOL)

NewChannelAnalyzer == [history |-> << >>, baseline_buf |-> << >>, baseline |-> NoBaseline]

\* threshold_engine.py lines 42-60: one ThresholdAnalyzer per channel.
SpeedThresholdEngine(cfg) ==
    [cfg |-> cfg, analyzers |-> [c \in Channels |-> NewChannelAnalyzer]]

\* dict.get(name, default) on a mapping, a function of its keys.
dict_get(values, name, default) ==
    IF name \in DOMAIN values THEN values[name] ELSE default

\* Mutant of multi_update: a channel missing from the mapping is skipped.
multi_update_skipping(config, analyzers, values) ==
    LET res == [c \in Channels |->
                   IF c \in DOMAIN values
                   THEN analyzer_update(config, analyzers[c], values[c])
                   ELSE [history |-> analyzers[c].history,
                         baseline_buf |-> analyzers[c].baseline_buf,
                         baseline |-> analyzers[c].baseline,
                         result |-> [called |-> FALSE, level |-> 0, value |-> 0,
                                     baseline |-> analyzers[c].baseline]]]
    IN [analyzers |-> [c \in Channels |->
                          [history |-> res[c].history,
                           baseline_buf |-> res[c].baseline_buf,
                           baseline |-> res[c].baseline]],
        levels |-> [c \in Channels |-> res[c].result.level],
        baselines |-> [c \in Channels |-> res[c].result.baseline],
        max_level |-> Max(0, Max(res["x"].result.level,
                                 Max(res["y"].result.level, res["z"].result.level)))]

\* Mutant of multi_update: every channel is fed the largest value of the call.
multi_update_coupled(config, analyzers, values) ==
    LET top == Max(dict_get(values, "x", 0),
                   Max(dict_get(values, "y", 0), dict_get(values, "z", 0)))
        res == [c \in Channels |-> analyzer_update(config, analyzers[c], top)]
    IN [analyzers |-> [c \in Channels |->
                          [history |-> res[c].history,
                           baseline_buf |-> res[c].baseline_buf,
                           baseline |-> res[c].baseline]],
        levels |-> [c \in Channels |-> res[c].result.level],
        baselines |-> [c \in Channels |-> res[c].result.baseline],
        max_level |-> Max(0, Max(res["x"].result.level,
                                 Max(res["y"].result.level, res["z"].result.level)))]

\* threshold_analyzer.py lines 148-159: MultiChannelThresholdAnalyzer.update.
\* Only the configured channels are looked up in the mapping (line 153).
multi_update(config, analyzers, values) ==
    LET rx == analyzer_update(config, analyzers["x"], dict_get(values, "x", 0))
        ry == analyzer_update(config, analyzers["y"], dict_get(values, "y", 0))
        rz == analyzer_update(config, analyzers["z"], dict_get(values, "z", 0))
        res == [x |-> rx, y |-> ry, z |-> rz]
    IN [analyzers |-> [c \in Channels |->
                          [history |-> res[c].history,
                           baseline_buf |-> res[c].baseline_buf,
                           baseline |-> res[c].baseline]],
        levels |-> [c \in Channels |-> res[c].result.level],
        baselines |-> [c \in Channels |-> res[c].result.baseline],
        max_level |-> Max(0, Max(res["x"].result.level,
                                 Max(res["y"].result.level, res["z"].result.level)))]

\* threshold_engine.py lines 68-71: the engine after the call and the level
\* the call returns.
evaluate_xyz(engine, vx, vy, vz) ==
    LET res == multi_update(engine_config(engine.cfg), engine.analyzers,
                            [x |-> vx, y |-> vy, z |-> vz])
    IN [engine |-> [engine EXCEPT !.analyzers = res.analyzers],
        level |-> res.max_level]

\* threshold_engine.py lines 62-66: the value is the x axis, y and z are 0.0.
evaluate_single(engine, value) ==
    LET res == multi_update(engine_config(engine.cfg), engine.analyzers,
                            [x |-> value, y |-> 0, z |-> 0])
    IN [engine |-> [engine EXCEPT !.analyzers = res.analyzers],
        level |-> res.max_level]

NoEvaluation == [called |-> FALSE, vx |-> 0, vy |-> 0, vz |-> 0, level |-> 0]
Evaluation(vx, vy, vz, level) ==
    [called |-> TRUE, vx |-> vx, vy |-> vy, vz |-> vz, level |-> level]

NoRead == [ok |-> FALSE, read |-> FALSE, xyz |-> <<0, 0, 0>>]

\* sensor_service.py lines 54-70: SensorService.__init__.
SeIdle ==
    /\ se_engines = [loc \in Locations |-> SpeedThresholdEngine(ServiceConfig)]
    /\ se_last = [loc \in Locations |-> NoEvaluation]
    /\ aq_pc = 0
    /\ aq_cycle = 0
    /\ aq_read = [loc \in Locations |-> NoRead]
    /\ aq_state = [loc \in Locations |-> LocationFaultState(0, 0)]

SeFrame == UNCHANGED <<alarmVars, thVars, trVars, engVars, fsVars, asVars, brVars>>

\* ---- two engines of the same thresholds called directly ----

\* Calls made on one engine.
MaxEvals == 3

EngineNames == {"crank_left", "crank_right"}

\* Speeds in mm/s: none, level3 itself and one above it, with a level-1 axis.
XyzValues == {<<0, 0, 0>>, <<20, 0, 0>>, <<0, 25, 6>>}
SingleValues == {0, 20}

EvaluateXyz(name, vx, vy, vz) ==
    /\ Len(se_engines[name].analyzers["x"].history) < MaxEvals
    /\ \E r \in {evaluate_xyz(se_engines[name], vx, vy, vz)} :
          /\ se_engines' = [se_engines EXCEPT ![name] = r.engine]
          /\ se_last' = [se_last EXCEPT ![name] = Evaluation(vx, vy, vz, r.level)]
    /\ UNCHANGED <<aq_pc, aq_cycle, aq_read, aq_state>>
    /\ SeFrame

EvaluateSingle(name, value) ==
    /\ Len(se_engines[name].analyzers["x"].history) < MaxEvals
    /\ \E r \in {evaluate_single(se_engines[name], value)} :
          /\ se_engines' = [se_engines EXCEPT ![name] = r.engine]
          /\ se_last' = [se_last EXCEPT ![name] = Evaluation(value, 0, 0, r.level)]
    /\ UNCHANGED <<aq_pc, aq_cycle, aq_read, aq_state>>
    /\ SeFrame

NextEngines ==
    \/ \E name \in EngineNames, v \in XyzValues : EvaluateXyz(name, v[1], v[2], v[3])
    \/ \E name \in EngineNames, value \in SingleValues : EvaluateSingle(name, value)

\* ---- SensorService.run_forever: _acquire_once, then _write_state ----

\* What _read_speed_xyz can do at a location: raise, as the client does on
\* a timeout, a CRC mismatch or an exception response, or return the three
\* speeds of that location.
LocationSpeeds ==
    [crank_left |-> <<25, 6, 0>>, crank_right |-> <<6, 25, 0>>,
     tail_bearing |-> <<0, 6, 25>>, mid_bearing |-> <<12, 0, 6>>]

ReadOutcomes(loc) ==
    {[ok |-> FALSE, read |-> TRUE, xyz |-> <<0, 0, 0>>],
     [ok |-> TRUE, read |-> TRUE, xyz |-> LocationSpeeds[loc]]}

\* Mutant of safe_read_xyz: the exception is not caught.
safe_read_xyz_raising(outcome) == outcome

\* Lines 82-88: _safe_read_xyz returns zeros for any exception.
safe_read_xyz(outcome) ==
    IF outcome.ok THEN outcome ELSE [outcome EXCEPT !.ok = TRUE, !.xyz = <<0, 0, 0>>]

Published(k) == \E i \in 1..Len(fs_published) : fs_published[i].timestamp = k

\* Line 149: the next cycle of run_forever enters _acquire_once.
AcquireBegin ==
    /\ \/ aq_pc = 0
       \/ aq_pc = 5 /\ ws_pc = "idle" /\ Published(aq_cycle)
    /\ aq_cycle < MaxWrites
    /\ aq_pc' = 1
    /\ aq_cycle' = aq_cycle + 1
    /\ aq_read' = [loc \in Locations |-> NoRead]
    /\ aq_state' = [loc \in Locations |-> LocationFaultState(0, 0)]
    /\ UNCHANGED <<se_engines, se_last>>
    /\ SeFrame

\* Lines 108-125: one location is read, classified and its maximum taken. An
\* exception that leaves _safe_read_xyz leaves _acquire_once and is caught
\* in run_forever (line 160): the cycle is over and nothing is written.
AcquireLocation(outcome) ==
    /\ aq_pc \in 1..4
    /\ LET loc == LocationOrder[aq_pc]
           got == safe_read_xyz(outcome)
       IN /\ aq_read' = [aq_read EXCEPT ![loc] = outcome]
          /\ IF got.ok
             THEN \E r \in {evaluate_xyz(se_engines[loc], got.xyz[1], got.xyz[2],
                                         got.xyz[3])} :
                     /\ se_engines' = [se_engines EXCEPT ![loc] = r.engine]
                     /\ se_last' = [se_last EXCEPT ![loc] =
                                       Evaluation(got.xyz[1], got.xyz[2], got.xyz[3],
                                                  r.level)]
                     /\ aq_state' = [aq_state EXCEPT ![loc] =
                                        LocationFaultState(SeqMax(got.xyz), r.level)]
                     /\ aq_pc' = aq_pc + 1
             ELSE /\ aq_pc' = 0
                  /\ UNCHANGED <<se_engines, se_last, aq_state>>
    /\ UNCHANGED aq_cycle
    /\ SeFrame

\* Lines 127-134: the SensorFaultState _acquire_once returns.
acquired_state ==
    SensorFaultState(aq_cycle, aq_state["crank_left"], aq_state["crank_right"],
                     aq_state["tail_bearing"], aq_state["mid_bearing"])

\* Line 150: the state of the cycle goes to _write_state.
AcquireWrite ==
    /\ aq_pc = 5
    /\ ~Published(aq_cycle)
    /\ WriteBegin(acquired_state)

NextSensorService ==
    \/ AcquireBegin
    \/ \E outcome \in ReadOutcomes(LocationOrder[IF aq_pc \in 1..4 THEN aq_pc ELSE 1]) :
          AcquireLocation(outcome)
    \/ AcquireWrite
    \/ WriteOpen
    \/ WriteChunk
    \/ WriteReplace

-----------------------------------------------------------------------------
(*      MultiChannelThresholdAnalyzer.update under partial mappings        *)
(* Two analyzers built from th_cfg over Channels, "A" and "B", are updated *)
(* in the same step; the mappings they are given agree on the channel      *)
(* th_multi.track and are otherwise unrelated.                             *)

\* Updates made on each analyzer.
MaxUpdates == 3

Runs == {"A", "B"}

\* A key that is no channel of the analyzers.
Keys == Channels \cup {"w"}

\* vibration_monitor_ui.py line 166 (10/20/30), with windows of two samples
\* so that the third update evicts.
MultiConfigs ==
    {cfg \in Configs : /\ cfg.level2 = 20
                       /\ cfg.window_size = 2 /\ cfg.baseline_window = 2
                       /\ cfg.min_spike_count = 1 /\ cfg.baseline_tol_num = 1}

\* Mappings over any subset of the keys `keys`, with values of `vals`.
Mappings(keys, vals) == UNION {[K -> vals] : K \in SUBSET keys}

\* "A" is given any of the keys, "B" any of the channels, each with a value
\* above level3; a channel left out is the one that reads 0.
ValuesA(cfg) == Mappings(Keys, {cfg.level3 + 1})
ValuesB(cfg) == Mappings(Channels, {cfg.level3 + 1})

\* threshold_analyzer.py lines 144-146: MultiChannelThresholdAnalyzer.__init__.
NewMulti(track) ==
    [track |-> track, n |-> 0, values |-> << >>,
     run |-> [r \in Runs |->
                 [analyzers |-> [c \in Channels |-> NewChannelAnalyzer],
                  levels |-> [c \in Channels |-> 0],
                  baselines |-> [c \in Channels |-> NoBaseline],
                  max_level |-> 0]]]

InitChannels ==
    /\ \E cfg \in MultiConfigs : NewAnalyzer(cfg)
    /\ \E track \in Channels : th_multi = NewMulti(track)

\* One update of each analyzer; th_multi.values keeps the mapping given to "A".
MultiUpdate(va, vb) ==
    /\ th_multi.n < MaxUpdates
    /\ dict_get(va, th_multi.track, 0) = dict_get(vb, th_multi.track, 0)
    /\ \E ra \in {multi_update(th_cfg, th_multi.run["A"].analyzers, va)},
          rb \in {multi_update(th_cfg, th_multi.run["B"].analyzers, vb)} :
          th_multi' = [th_multi EXCEPT !.n = @ + 1, !.values = va,
                                       !.run = [A |-> ra, B |-> rb]]
    /\ UNCHANGED <<th_cfg, th_history, th_baseline_buf, th_baseline, th_result, th_fed>>
    /\ UNCHANGED <<alarmVars, trVars, engVars, fsVars, asVars, seVars, brVars>>

NextChannels ==
    \E va \in ValuesA(th_cfg), vb \in ValuesB(th_cfg) : MultiUpdate(va, vb)

-----------------------------------------------------------------------------
(*            The fault-level bridge (fault_state_bridge.py)               *)
(* One process calls update_vibration_levels; get_latest_levels_for_alarm  *)
(* is called from another thread or process and reads the JSON file only.  *)
(* time.time() of the k-th update is k.                                    *)

\* Calls of update_vibration_levels the model follows.
MaxSaves == 3

\* The four sensor ids of DEFAULT_VIBRATION_TO_STATE_FIELD and one more.
SensorIds == {"vib_crank_left", "vib_crank_right", "vib_tail_bearing",
              "vib_mid_bearing", "vib_belt"}
IdOrder == <<"vib_crank_left", "vib_crank_right", "vib_tail_bearing",
             "vib_mid_bearing", "vib_belt">>

\* Lines 24-31: SensorFaultLevel as asdict gives it.
SensorFaultLevel(sensor_id, level, sensor_type, timestamp) ==
    [sensor_id |-> sensor_id, level |-> level, sensor_type |-> sensor_type,
     timestamp |-> timestamp]

\* Lines 118-123.
DEFAULT_VIBRATION_TO_STATE_FIELD ==
    [vib_crank_left |-> "crank_left_level", vib_crank_right |-> "crank_right_level",
     vib_tail_bearing |-> "tail_bearing_level", vib_mid_bearing |-> "mid_bearing_level"]

\* An empty dict.
NoLevels == << >>

\* Mutant of update_vibration_levels: the dict holds the ids of this call only.
update_vibration_levels_replacing(fault_levels, levels, time) ==
    [sid \in DOMAIN levels |->
        SensorFaultLevel(sid, Max(0, Min(3, levels[sid])), "vibration", time)]

\* Lines 95-104: _fault_levels after the loop over levels.items().
update_vibration_levels(fault_levels, levels, time) ==
    [sid \in DOMAIN fault_levels \cup DOMAIN levels |->
        IF sid \in DOMAIN levels
        THEN SensorFaultLevel(sid, Max(0, Min(3, levels[sid])), "vibration", time)
        ELSE fault_levels[sid]]

\* Lines 54-56: json.dump of {sid: asdict(snap)}: an opening brace, one chunk
\* per sensor id, a closing brace.
json_dump_levels(fault_levels) ==
    LET Held(sid) == sid \in DOMAIN fault_levels
        ids == SelectSeq(IdOrder, Held)
    IN <<<<"{", 0>>>> \o [i \in 1..Len(ids) |-> <<ids[i], fault_levels[ids[i]]>>]
          \o <<<<"}", 0>>>>

NoFile == [exists |-> FALSE, text |-> << >>]

\* Lines 62-89: _load_from_json on the file as it is when it is read.
load_from_json(file) ==
    IF ~file.exists THEN NoLevels
    ELSE LET raw == json_load(file.text)
         IN IF "error" \in DOMAIN raw THEN NoLevels
            ELSE [sid \in DOMAIN raw |->
                     SensorFaultLevel(sid, raw[sid].level, raw[sid].sensor_type,
                                      raw[sid].timestamp)]

\* Lines 126-139.
map_to_state_fields(levels) ==
    LET mapped == DOMAIN levels \cap DOMAIN DEFAULT_VIBRATION_TO_STATE_FIELD
    IN [field \in {DEFAULT_VIBRATION_TO_STATE_FIELD[sid] : sid \in mapped} |->
           levels[CHOOSE sid \in mapped :
                     DEFAULT_VIBRATION_TO_STATE_FIELD[sid] = field].level]

\* Lines 35-40: nothing updated yet, no file.
BrIdle ==
    /\ br_fault_levels = NoLevels
    /\ br_file = NoFile
    /\ br_pc = "idle"
    /\ br_doc = << >>
    /\ br_args = << >>
    /\ br_saved = << >>
    /\ br_rd_pc = "idle"
    /\ br_rd_began = 0
    /\ br_rd_result = NoLevels

BrFrame == UNCHANGED <<alarmVars, thVars, trVars, engVars, fsVars, asVars, seVars>>

\* Mappings passed to update_vibration_levels: one id in range, an id above
\* the range with an id that has no state field, three ids with one below
\* the range.
BridgeUpdates ==
    {[vib_crank_left |-> 2],
     [vib_crank_left |-> 5, vib_belt |-> 1],
     [vib_crank_right |-> -1, vib_tail_bearing |-> 3, vib_mid_bearing |-> 1]}

\* Lines 95-104 and 54: under the lock, the dict is updated and the data to
\* dump is built.
UpdateBegin(levels) ==
    /\ br_pc = "idle"
    /\ Len(br_args) < MaxSaves
    /\ \E fl \in {update_vibration_levels(br_fault_levels, levels, Len(br_args) + 1)} :
          /\ br_fault_levels' = fl
          /\ br_doc' = json_dump_levels(fl)
    /\ br_args' = Append(br_args, levels)
    /\ br_pc' = "open"
    /\ UNCHANGED <<br_file, br_saved, br_rd_pc, br_rd_began, br_rd_result>>
    /\ BrFrame

\* Line 55: open(_JSON_FILENAME, "w") creates the file or empties it.
SaveOpen ==
    /\ br_pc = "open"
    /\ br_file' = [exists |-> TRUE, text |-> << >>]
    /\ br_pc' = "dump"
    /\ UNCHANGED <<br_fault_levels, br_doc, br_args, br_saved, br_rd_pc, br_rd_began,
                   br_rd_result>>
    /\ BrFrame

\* Line 56: json.dump reaches the file chunk by chunk; after the last one
\* the file is closed and the lock released.
SaveChunk ==
    /\ br_pc = "dump"
    /\ br_file' = [br_file EXCEPT !.text = Append(@, br_doc[Len(@) + 1])]
    /\ IF Len(br_file.text) + 1 = Len(br_doc)
       THEN /\ br_pc' = "idle"
            /\ br_saved' = Append(br_saved, br_fault_levels)
       ELSE UNCHANGED <<br_pc, br_saved>>
    /\ UNCHANGED <<br_fault_levels, br_doc, br_args, br_rd_pc, br_rd_began, br_rd_result>>
    /\ BrFrame

\* Lines 108-112 and 65-66: get_latest_levels_for_alarm begins; no file, no
\* levels.
LoadBegin ==
    /\ br_rd_pc = "idle"
    /\ br_rd_began' = Len(br_saved)
    /\ IF br_file.exists
       THEN br_rd_pc' = "load" /\ UNCHANGED br_rd_result
       ELSE br_rd_pc' = "done" /\ br_rd_result' = NoLevels
    /\ UNCHANGED <<br_fault_levels, br_file, br_pc, br_doc, br_args, br_saved>>
    /\ BrFrame

\* Lines 67-89: the file is opened and read, whatever it holds by now.
LoadLevels ==
    /\ br_rd_pc = "load"
    /\ br_rd_result' = load_from_json(br_file)
    /\ br_rd_pc' = "done"
    /\ UNCHANGED <<br_fault_levels, br_file, br_pc, br_doc, br_args, br_saved,
                   br_rd_began>>
    /\ BrFrame

\* The caller's next poll.
LoadNext ==
    /\ br_rd_pc = "done"
    /\ br_rd_pc' = "idle"
    /\ br_rd_began' = 0
    /\ br_rd_result' = NoLevels
    /\ UNCHANGED <<br_fault_levels, br_file, br_pc, br_doc, br_args, br_saved>>
    /\ BrFrame

\* Lines 108-112: the whole call, made while no update is under way.
GetLatest ==
    /\ br_rd_pc = "idle"
    /\ br_pc = "idle"
    /\ br_rd_began' = Len(br_saved)
    /\ br_rd_result' = load_from_json(br_file)
    /\ br_rd_pc' = "done"
    /\ UNCHANGED <<br_fault_levels, br_file, br_pc, br_doc, br_args, br_saved>>
    /\ BrFrame

NextBridge ==
    \/ \E levels \in BridgeUpdates : UpdateBegin(levels)
    \/ SaveOpen
    \/ SaveChunk
    \/ LoadBegin
    \/ LoadLevels
    \/ LoadNext

NextRoundTrip ==
    \/ \E levels \in BridgeUpdates : UpdateBegin(levels)
    \/ SaveOpen
    \/ SaveChunk
    \/ GetLatest
    \/ LoadNext

-----------------------------------------------------------------------------
(*                              Specifications                             *)

\* The engine memory at import, the analyzer unused.
InitEngine == InitAlarm /\ ThIdle /\ InitTransport /\ EngIdle /\ FsIdle /\ SeIdle /\ BrIdle

\* A new analyzer of any configuration, the engine unused.
InitAnalyzer == InitClassifier /\ InitAlarm /\ InitTransport /\ EngIdle /\ FsIdle /\ SeIdle /\ BrIdle

\* A client with its port open, the engine and the analyzer unused.
InitClient == InitTransport /\ InitAlarm /\ ThIdle /\ EngIdle /\ FsIdle /\ SeIdle /\ BrIdle

\* Two new multi-channel analyzers of one configuration.
InitMulti == InitChannels /\ InitAlarm /\ InitTransport /\ EngIdle /\ FsIdle /\ SeIdle /\ BrIdle

\* The two services before their first cycle, no hand-off file yet.
InitServices == FsIdle /\ InitAlarm /\ ThIdle /\ InitTransport /\ EngIdle /\ SeIdle /\ BrIdle

\* The alarm engine under any sequence of calls.
SpecAlarm == InitEngine /\ [][NextAlarm]_vars

\* The alarm engine under calls that never pass the stop code as observed.
SpecUnconfirmed == InitEngine /\ [][NextUnconfirmed]_vars

\* The alarm engine over the snapshots.
SpecLevels == InitEngine /\ [][NextLevels]_vars

\* One analyzer under any sequence of samples.
SpecClassifier == InitAnalyzer /\ [][NextClassifier]_vars

\* One analyzer under a flat baseline followed by a sustained fault.
SpecSustained == InitAnalyzer /\ [][NextSustained]_vars

\* One analyzer under a recorded sequence of samples.
SpecBuffers == InitAnalyzer /\ [][NextBuffers]_vars

\* Two multi-channel analyzers fed mappings that agree on one channel.
SpecChannels == InitMulti /\ [][NextChannels]_vars

\* The bridge: updates of the levels while another caller polls them.
SpecBridge == InitServices /\ [][NextBridge]_vars

\* The bridge: updates and polls that do not overlap.
SpecRoundTrip == InitServices /\ [][NextRoundTrip]_vars

\* One thread reading registers through the client, any slave behind the port.
SpecExchange == InitClient /\ [][NextExchange]_vars

\* Two threads evaluating the alarm engine.
SpecThreads == InitEngine /\ [][NextThreads]_vars

\* The sensor service writing the hand-off file while a reader loads it.
SpecHandoff == InitServices /\ [][NextHandoff]_vars

\* The alarm service over any content of the hand-off file.
SpecAlarmService == InitServices /\ [][NextAlarmService]_vars

\* Two threads reading registers through the same client.
SpecBus == InitClient /\ [][NextBus]_vars

\* Two SpeedThresholdEngines of the service's thresholds under any calls.
SpecEngines == InitServices /\ [][NextEngines]_vars

\* The sensor service: cycles of _acquire_once and _write_state.
SpecSensorService == InitServices /\ [][NextSensorService]_vars

-----------------------------------------------------------------------------
(*                                 Claims                                  *)

Registers == last.registers

\* C1: no returned write set maps register 101 to the run code 81; whenever
\* 101 is in a write set, its value is the stop code 82.
C1_NeverAutoRestart ==
    last.called =>
        /\ ~Has(Registers, 101, RUN_CODE)
        /\ (101 \in DOMAIN Registers => Registers[101] = STOP_CODE)

\* C1 witness: after a confirmed stop and a manual restart, a call writes 101.
C1_Witness ==
    last.called /\ scenario = "overridden" /\ 101 \in DOMAIN Registers

\* C2 (as claimed): a call that ends its sync step with 101 remembered as 82
\* writes neither 3501=0 nor 101, and a call that starts with 101 remembered
\* as 82 writes 3501=0 only if it observes the run code 81.
C2_StopLatchOnlyRunReleases ==
    [][ /\ (g_101_current' = STOP_CODE =>
               ~Has(last'.registers, 3501, 0) /\ 101 \notin DOMAIN last'.registers)
        /\ (g_101_current = STOP_CODE /\ Has(last'.registers, 3501, 0) =>
               last'.obs = RUN_CODE) ]_vars

\* The sensors have recovered: the snapshot of the last call is at level 0.
Recovered == overall_alarm_level(last.state) = 0

\* C3 (as claimed): once level 3 has lasted 60 seconds with 101 observed as
\* 82, every evaluation at level 0 with 101 still remembered as 82 writes
\* 3501=1 and omits 101.
C3_StopLatchScenario ==
    scenario = "stop_latched" /\ Recovered =>
        Has(Registers, 3501, 1) /\ 101 \notin DOMAIN Registers

\* C3 (amended): such an evaluation writes 3501=1 and omits 101 while the
\* indicator latch is not 1, and returns exactly {43501: 1} once the latch is
\* 1; in both cases it writes neither 3501=0 nor 101.
C3_StopLatchAmended ==
    scenario = "stop_latched" /\ Recovered =>
        /\ 101 \notin DOMAIN Registers
        /\ ~Has(Registers, 3501, 0)
        /\ IF g_43501_latched = 1
           THEN Registers = Entry(43501, 1)
           ELSE Has(Registers, 3501, 1)

\* C3 witness: the recovered evaluation of the scenario that writes 3501=1.
C3_Witness ==
    scenario = "stop_latched" /\ Recovered /\ Has(Registers, 3501, 1)

\* C4 (as claimed): with the stop latch in force, the evaluation that
\* observes 81 clears the level-3 timer in its sync step, and the next
\* evaluation whose overall level is below 2 writes 3501=0.
C4_ManualOverride ==
    [][ /\ (scenario = "stop_latched" /\ g_101_current' = RUN_CODE =>
               last'.trig_sync = None)
        /\ (scenario' = "resumed" => Has(last'.registers, 3501, 0)) ]_vars

\* C4 (amended): the same, except that the evaluation whose overall level is
\* below 2 returns exactly {43501: 1} when the indicator latch is 1 at that
\* evaluation.
C4_ManualOverrideAmended ==
    [][ /\ (scenario = "stop_latched" /\ g_101_current' = RUN_CODE =>
               last'.trig_sync = None)
        /\ (scenario' = "resumed" =>
               IF g_43501_latched' = 1
               THEN last'.registers = Entry(43501, 1)
               ELSE Has(last'.registers, 3501, 0)) ]_vars

\* C4 witness: after the override, an evaluation below level 2 writes 3501=0.
C4_Witness ==
    scenario = "resumed" /\ Has(Registers, 3501, 0)

\* A location among the six sensor locations is at level 3 (or above), the
\* three phases are OK and the load position is normal.
BenignSnapshot(state) ==
    /\ \/ state.belt_level >= 3 \/ state.mid_bearing_level >= 3
       \/ state.tail_bearing_level >= 3 \/ state.horsehead_level >= 3
       \/ state.crank_left_level >= 3 \/ state.crank_right_level >= 3
    /\ state.elec_phase_a_ok /\ state.elec_phase_b_ok /\ state.elec_phase_c_ok
    /\ state.loadpos_ok

\* C5 (as claimed): every evaluation of a benign level-3 snapshot writes
\* 3502=2 and does not write 101=82.
C5_BenignDowngrade ==
    last.called /\ BenignSnapshot(last.state) =>
        Has(Registers, 3502, 2) /\ ~Has(Registers, 101, STOP_CODE)

\* C5 (amended): every evaluation of a benign level-3 snapshot that is not
\* short-circuited by the indicator latch writes 3502=2 and does not write
\* 101; a short-circuited one returns exactly {43501: 1}.
C5_BenignDowngradeAmended ==
    last.called /\ BenignSnapshot(last.state) =>
        IF g_43501_latched = 1
        THEN Registers = Entry(43501, 1)
        ELSE Has(Registers, 3502, 2) /\ 101 \notin DOMAIN Registers

\* C5 witness: a benign snapshot with the line at level 3 as well is written
\* as level 2.
C5_Witness ==
    /\ last.called /\ BenignSnapshot(last.state) /\ last.state.line_level >= 3
    /\ Has(Registers, 3502, 2)

\* The samples of the detection window that are at or above level1.
SpikesInWindow ==
    Cardinality({i \in 1..Len(th_history) : th_history[i] >= th_cfg.level1})

\* C6 (as claimed): from a flat baseline (the baseline buffer full of equal
\* positive samples below level1), once at least window_size consecutive
\* samples of level3 + 1 have been fed, update reports level 3. Configurations
\* whose min_spike_count exceeds window_size, which can report no level at
\* all, are left out.
C6_SustainedFault ==
    /\ th_fed.high >= th_cfg.window_size
    /\ th_cfg.min_spike_count <= th_cfg.window_size
    => th_result.level = 3

\* C7: whenever fewer than min_spike_count samples of the detection window
\* are at or above level1, update returns level 0.
C7_NoiseSuppression ==
    th_result.called /\ SpikesInWindow < th_cfg.min_spike_count =>
        th_result.level = 0

\* C7 witness: a single sample above level3 among samples below level1, in a
\* window of three with min_spike_count 2, is reported as level 0.
C7_Witness ==
    /\ th_result.called /\ th_result.level = 0
    /\ th_cfg.min_spike_count = 2
    /\ th_history = <<th_cfg.level1 - 1, th_cfg.level3 + 1, th_cfg.level1 - 1>>


-----------------------------------------------------------------------------
(*                     Claims about the Modbus client                       *)

\* The thread's call went through an exchange and has ended.
Exchanged(th) ==
    tr_pc[th] = "idle" /\ tr_result[th].kind \notin {"none", "InvalidArgument"}

\* The CRC16 of all but the last two bytes of a frame, and the value its
\* last two bytes carry, low byte first.
FrameCrc(frame) == crc16(SubSeq(frame, 1, Len(frame) - 2))
TrailingCrc(frame) == frame[Len(frame) - 1] + 256 * frame[Len(frame)]

\* The failure of the first failing check among: header short read, address
\* mismatch, exception bit, data short read, CRC mismatch, byte count.
ListedOutcome(seen, unit_id, count) ==
    IF Len(seen) < 3 THEN "TimeoutHeader"
    ELSE IF seen[1] # unit_id THEN "AddressMismatch"
    ELSE IF seen[2] >= EXCEPTION_BIT THEN "RemoteException"
    ELSE IF Len(seen) < 3 + seen[3] + 2 THEN "TimeoutData"
    ELSE IF FrameCrc(Take(seen, 3 + seen[3] + 2)) # TrailingCrc(Take(seen, 3 + seen[3] + 2))
    THEN "ChecksumError"
    ELSE IF seen[3] # 2 * count THEN "ByteCountMismatch"
    ELSE "OK"

\* The same with the function-code check between the CRC and the byte count.
SevenCheckOutcome(seen, unit_id, count) ==
    IF ListedOutcome(seen, unit_id, count) \in {"OK", "ByteCountMismatch"}
          /\ seen[2] # READ_HOLDING
    THEN "UnexpectedFunction"
    ELSE ListedOutcome(seen, unit_id, count)

\* C8 (as stated): the failure reported for a response is that of the first
\* failing check in the order header short read, address mismatch, exception
\* bit, data short read, CRC mismatch, byte count # 2 * count.
C8_ValidationOrder ==
    \A th \in Threads :
        (Exchanged(th)
            /\ ListedOutcome(tr_result[th].seen, tr_result[th].unit_id,
                             tr_req[th].count) # "OK")
        => tr_result[th].kind = ListedOutcome(tr_result[th].seen, tr_result[th].unit_id,
                                              tr_req[th].count)

\* C8 (amended): the checks are seven, a function code other than 0x03
\* being refused after the CRC check and before the byte-count check; the
\* call reports the first failing one and succeeds when none fails.
C8_ValidationOrderAmended ==
    \A th \in Threads :
        Exchanged(th)
        => tr_result[th].kind = SevenCheckOutcome(tr_result[th].seen, tr_result[th].unit_id,
                                                  tr_req[th].count)

\* A response with a foreign address and the exception bit set was reported
\* as an address mismatch.
C8_Witness ==
    /\ Exchanged(1)
    /\ Len(tr_result[1].seen) >= 3
    /\ tr_result[1].seen[1] # tr_result[1].unit_id
    /\ tr_result[1].seen[2] >= EXCEPTION_BIT
    /\ tr_result[1].kind = "AddressMismatch"

\* A complete response from the addressed slave with function code 0x03.
CompleteRead(th) ==
    /\ Exchanged(th)
    /\ Len(tr_result[th].seen) >= 5
    /\ tr_result[th].seen[1] = tr_result[th].unit_id
    /\ tr_result[th].seen[2] = READ_HOLDING
    /\ Len(tr_result[th].seen) = 3 + tr_result[th].seen[3] + 2

\* The frame's last two bytes differ from the CRC of what precedes, low
\* byte first, in exactly one byte.
OneCrcByteChanged(frame) ==
    (frame[Len(frame) - 1] = FrameCrc(frame) % 256)
        # (frame[Len(frame)] = FrameCrc(frame) \div 256)

\* C9: a complete response with matching address and function 0x03 whose
\* last two bytes are the CRC16 of the preceding bytes, low byte first,
\* passes the CRC check; with one of the two bytes changed it fails with
\* the checksum error.
C9_CrcRoundTrip ==
    \A th \in Threads :
        CompleteRead(th)
        => /\ (TrailingCrc(tr_result[th].seen) = FrameCrc(tr_result[th].seen)
                  => tr_result[th].kind \in {"OK", "ByteCountMismatch"})
           /\ (OneCrcByteChanged(tr_result[th].seen)
                  => tr_result[th].kind = "ChecksumError")

\* The frame 01 03 02 11 22 with its CRC 0x0D34 sent as 34 0D was accepted.
C9_Witness ==
    /\ CompleteRead(1)
    /\ tr_result[1].seen = <<1, 3, 2, 17, 34, 52, 13>>
    /\ tr_result[1].kind = "OK"

\* C10: a call with an address outside 0..0xFFFF or a count outside 1..125
\* ends with the invalid-argument error and has not taken the lock, flushed,
\* written or read.
C10_ValidationBeforeIO ==
    \A th \in Threads :
        (tr_req[th].called
            /\ ~(0 <= tr_req[th].address /\ tr_req[th].address <= 65535
                    /\ 1 <= tr_req[th].count /\ tr_req[th].count <= 125))
        => /\ tr_result[th].kind = "InvalidArgument"
           /\ tr_ops[th] = << >>
           /\ tr_pc[th] = "idle"
           /\ tr_lock # th

\* After an exchange that used the port, a call asking for 126 registers
\* was refused and the bytes last written are still those of the exchange.
C10_Witness ==
    /\ tr_req[1].called
    /\ tr_req[1].count = MAX_COUNT + 1
    /\ tr_req[1].address \in 0..MAX_ADDRESS
    /\ tr_result[1].kind = "InvalidArgument"
    /\ tr_ops[1] = << >>
    /\ tr_tx # << >>

-----------------------------------------------------------------------------
(*                  Claims about threads sharing the client                 *)

\* The threads between the flush and write of their request and the end of
\* the read of their response.
InExchange == {th \in Threads : tr_pc[th] = "recv"}

\* C11: at most one thread at a time is inside an exchange and it holds the
\* lock; the bytes on the wire are those of its request and nobody else's;
\* a thread whose call has ended, however it ended, does not hold the lock,
\* so the lock is free whenever no exchange is under way.
C11_ExchangeMutualExclusion ==
    /\ Cardinality(InExchange) <= 1
    /\ \A th \in Threads :
          /\ (tr_pc[th] = "recv") <=> (tr_lock = th)
          /\ tr_pc[th] = "recv"
                => SubSeq(tr_tx, 2, 6)
                     = pack_BHH(READ_HOLDING, tr_req[th].address, tr_req[th].count)
    /\ (InExchange = {} => tr_lock = NoThread)

\* Thread 2 is inside its exchange, its response in the buffer, while
\* thread 1, whose previous exchange was answered, waits for the lock.
C11_Witness ==
    /\ tr_pc[1] = "lock"
    /\ tr_pc[2] = "recv"
    /\ tr_lock = 2
    /\ tr_rx # << >>
    /\ tr_ops[2] = <<"lock", "reset_input_buffer", "write", "flush">>

-----------------------------------------------------------------------------
(*             Claims about threads sharing the alarm engine               *)

\* C12: calls of build_rtu_registers from two threads behave as if one
\* completed before the next began: no call fails, and no call at level 3
\* comes to read the level-3 timer after another call cleared it.
C12_SerializedEvaluation ==
    \A th \in Threads :
        /\ eng_result[th].kind # "TypeError"
        /\ (eng_pc[th] = "elapsed" => g_101_trigger_start # None)

-----------------------------------------------------------------------------
(*                     Claims about the hand-off file                      *)

\* The text behind the hand-off path, if there is a file.
Visible ==
    IF fs_path[STATE_PATH] = NoInode THEN << >> ELSE fs_inode[fs_path[STATE_PATH]]

\* C13: a reader that opened the hand-off path loads the complete document
\* that was in place when it opened (the previous one while a write is
\* under way, the new one after the replace), never an empty or partial
\* text; and the text behind the path changes in the replace step only.
C13_AtomicHandoff ==
    /\ [](rd_pc = "done" =>
            IF rd_opened_at = 0
            THEN rd_result.kind = "FileNotFoundError"
            ELSE /\ rd_result.kind = "loaded"
                 /\ rd_result.data = fs_published[rd_opened_at])
    /\ [][Visible' # Visible => (ws_pc = "replace" /\ ws_pc' = "idle")]_vars

\* The reader opened the file while the second document was being written
\* to the temporary file, and loaded the first document whole after the
\* second had replaced it.
C13_Witness ==
    /\ rd_pc = "done"
    /\ rd_opened_at = 1
    /\ Len(fs_published) = 2
    /\ rd_result.kind = "loaded"
    /\ rd_result.data = fs_published[1]
    /\ fs_published[1] # fs_published[2]

-----------------------------------------------------------------------------
(*                     Claims about the alarm service                      *)

\* What the cycle just ended found at the hand-off path gives no complete
\* set of the four locations with value and level.
MissingData ==
    \/ rd_result.kind \in {"FileNotFoundError", "JSONDecodeError"}
    \/ /\ rd_result.kind = "loaded"
       /\ \E loc \in Locations :
             \/ loc \notin DOMAIN rd_result.data
             \/ "value" \notin DOMAIN rd_result.data[loc]
             \/ "level" \notin DOMAIN rd_result.data[loc]

\* C14: a cycle that finds the file absent, unparseable or lacking a
\* location or a location's value or level invokes no engine and writes no
\* register, and the loop goes on: the cycle is logged as skipped or as an
\* error caught, and the service is ready for its next cycle.
C14_SkipOnMissingData ==
    [][(rd_pc = "done" /\ rd_pc' = "idle" /\ MissingData)
          => /\ as_engine' = as_engine
             /\ as_rtu' = as_rtu
             /\ as_log' \in {Append(as_log, "skipped"), Append(as_log, "error")}]_vars

\* A cycle found a location without its level and was skipped; the next
\* cycle found a whole document and evaluated it.
C14_Witness ==
    /\ as_log = <<"error", "evaluated">>
    /\ Len(as_engine) = 1
    /\ as_rtu = 1
    /\ rd_pc = "idle"


-----------------------------------------------------------------------------
\* C15: a failed read of one location puts (0.0, 0.0, 0.0) in the place of
\* that location's speeds only: every location the cycle has passed was
\* read, its engine was called in this cycle with the speeds read or with
\* the zeros, its LocationFaultState is the maximum and the level of that
\* call, and every cycle's state reaches the hand-off file.
Fed(loc) == IF aq_read[loc].ok THEN aq_read[loc].xyz ELSE <<0, 0, 0>>

C15_FailedReadIsolation ==
    /\ \A i \in 1..Len(LocationOrder) :
          LET loc == LocationOrder[i]
          IN aq_pc > i =>
                /\ aq_read[loc].read
                /\ se_last[loc].called
                /\ <<se_last[loc].vx, se_last[loc].vy, se_last[loc].vz>> = Fed(loc)
                /\ \A c \in Channels :
                      Len(se_engines[loc].analyzers[c].history) = aq_cycle
                /\ aq_state[loc] = LocationFaultState(SeqMax(Fed(loc)), se_last[loc].level)
    /\ aq_pc \in 0..4 => Len(fs_published) = aq_cycle - (IF aq_cycle = 0 THEN 0 ELSE 1)
    /\ aq_pc = 5 => Len(fs_published) \in {aq_cycle - 1, aq_cycle}
    /\ \A k \in 1..Len(fs_published) : fs_published[k].timestamp = k
    /\ (aq_pc = 5 /\ Published(aq_cycle)) =>
          /\ fs_published[aq_cycle] = acquired_state
          /\ json_load(fs_inode[fs_path[STATE_PATH]]) = acquired_state

\* The third cycle is written; the read of the right crank failed in it,
\* the left crank is at level 3 and the other two were read and classified.
C15_Witness ==
    /\ aq_pc = 5
    /\ aq_cycle = 3
    /\ Published(3)
    /\ ~aq_read["crank_right"].ok
    /\ fs_published[3]["crank_right"] = LocationFaultState(0, 0)
    /\ fs_published[3]["crank_left"] = LocationFaultState(25, 3)
    /\ fs_published[3]["tail_bearing"].value = 25
    /\ fs_published[3]["mid_bearing"] = LocationFaultState(12, 2)

-----------------------------------------------------------------------------
\* C16: the level a SpeedThresholdEngine returns depends on the arguments of
\* the call alone: two engines of the same thresholds return the same level
\* for the same arguments whatever they were fed before, and an argument at
\* or above level3 gives level 3 at once.
C16_StatelessPerCall ==
    /\ \A a, b \in EngineNames :
          (/\ se_last[a].called
           /\ se_last[b].called
           /\ <<se_last[a].vx, se_last[a].vy, se_last[a].vz>>
                 = <<se_last[b].vx, se_last[b].vy, se_last[b].vz>>)
             => se_last[a].level = se_last[b].level
    /\ \A a \in EngineNames :
          (/\ se_last[a].called
           /\ Max(se_last[a].vx, Max(se_last[a].vy, se_last[a].vz)) >= SERVICE_LEVEL3)
             => se_last[a].level = 3


-----------------------------------------------------------------------------
\* C17: a call that ends its latch update with the indicator latch at 1
\* returns exactly {43501: 1}, with no status register and no register 101,
\* and leaves the level-3 timer as its sync step left it.
C17_LatchShortCircuit ==
    (last.called /\ g_43501_latched = 1) =>
        /\ Registers = Entry(43501, 1)
        /\ DOMAIN Registers \cap ((3501..3520) \cup {101}) = {}
        /\ g_101_trigger_start = last.trig_sync

\* A short-circuited call at overall level 3 with the timer not running (it
\* was not started), and one below level 3 with the timer running (it was
\* not cleared).
C17_Witness ==
    /\ last.called
    /\ g_43501_latched = 1
    /\ overall_alarm_level(last.state) < 3
    /\ g_101_trigger_start # None
    /\ last.obs = STOP_CODE

-----------------------------------------------------------------------------
\* C18: the latch becomes 1 only in a call where 101 is remembered as 82 and
\* its last observed change is at least 60 seconds old, becomes 0 only where
\* 101 is remembered as 81 for at least 60 seconds, keeps its value in every
\* other call, and never returns to unset.
HeldFor(code) ==
    /\ g_101_current = code
    /\ g_101_changed_at # None
    /\ last.t[2] - g_101_changed_at >= HOLD_SECONDS

C18_IndicatorLatchRule ==
    [][ /\ (g_43501_latched' = 1 /\ g_43501_latched # 1) => HeldFor(STOP_CODE)'
        /\ (g_43501_latched' = 0 /\ g_43501_latched # 0) => HeldFor(RUN_CODE)'
        /\ g_43501_latched' = IF HeldFor(STOP_CODE)' THEN 1
                              ELSE IF HeldFor(RUN_CODE)' THEN 0
                              ELSE g_43501_latched
        /\ (g_43501_latched # None => g_43501_latched' # None) ]_vars

\* The latch goes from 1 to 0 in a call made when 81 has been remembered for
\* 60 seconds.
C18_Witness ==
    /\ last.called
    /\ last.latched_before = 1
    /\ g_43501_latched = 0
    /\ g_101_current = RUN_CODE
    /\ last.t[2] - g_101_changed_at = HOLD_SECONDS

-----------------------------------------------------------------------------
-----------------------------------------------------------------------------
\* C20: in a call at overall level 3 that is not short-circuited the timer
\* starts at the call's clock read if it was not running, 3501=1 is written
\* exactly when the timer is at least 60 seconds old, 3501 is absent
\* otherwise, and 3501=0 is never written.
C20_ConfirmedStoppedDelay ==
    (last.called /\ g_43501_latched # 1 /\ Registers[3502] = 3) =>
        /\ g_101_trigger_start = IF last.trig_sync = None THEN last.t[3]
                                 ELSE last.trig_sync
        /\ Has(Registers, 3501, 1) <=> last.t[4] - g_101_trigger_start >= HOLD_SECONDS
        /\ last.t[4] - g_101_trigger_start < HOLD_SECONDS => 3501 \notin DOMAIN Registers
        /\ ~Has(Registers, 3501, 0)

\* A level-3 call 60 seconds after the one that started the timer writes
\* 3501=1 and still sends the stop code.
C20_Witness ==
    /\ last.called
    /\ g_43501_latched # 1
    /\ Registers[3502] = 3
    /\ last.trig_sync # None
    /\ g_101_trigger_start = last.trig_sync
    /\ last.t[4] - g_101_trigger_start = HOLD_SECONDS
    /\ Has(Registers, 3501, 1)
    /\ Has(Registers, 101, STOP_CODE)


-----------------------------------------------------------------------------
\* C21: the sync step takes over the observed value and stamps the change
\* with the call's time exactly when a value is observed and differs from
\* the remembered one; it clears the level-3 timer only when that new value
\* is 81; otherwise the remembered value and the time stamp stay as they were.
C21_ExternalSync ==
    [][ LET change == last'.obs # None /\ last'.obs # g_101_current
        IN /\ change =>
                 /\ g_101_current' = last'.obs
                 /\ g_101_changed_at' = last'.t[1]
           /\ ~change =>
                 /\ g_101_current' = g_101_current
                 /\ g_101_changed_at' = g_101_changed_at
           /\ last'.trig_sync = IF change /\ last'.obs = RUN_CODE THEN None
                                ELSE g_101_trigger_start ]_vars

\* The run code is observed while another value is remembered and the timer
\* runs: the sync step stamps the change and clears the timer.
C21_Witness ==
    /\ last.called
    /\ last.obs = RUN_CODE
    /\ last.sync = "cleared"
    /\ last.trig_sync = None
    /\ g_101_current = RUN_CODE
    /\ g_101_changed_at = last.t[1]
    /\ last.t[1] > 0

-----------------------------------------------------------------------------
\* C22 (as claimed): after every call whose snapshot is at an overall level
\* below 3 the level-3 timer is unset.
C22_TimerClearedBelowLevel3 ==
    (last.called /\ overall_alarm_level(last.state) < 3) => g_101_trigger_start = None


\* C22 (amended): after a call below level 3 that is not short-circuited the
\* timer is unset; a call short-circuited by the latch leaves the timer as
\* its sync step left it.
C22_TimerClearedAmended ==
    (last.called /\ overall_alarm_level(last.state) < 3) =>
        /\ g_43501_latched # 1 => g_101_trigger_start = None
        /\ g_43501_latched = 1 => g_101_trigger_start = last.trig_sync

\* A call at level 2 that is not short-circuited clears a timer that was
\* running after its sync step.
C22_Witness ==
    /\ last.called
    /\ overall_alarm_level(last.state) = 2
    /\ g_43501_latched # 1
    /\ last.trig_sync # None
    /\ g_101_trigger_start = None


-----------------------------------------------------------------------------
-----------------------------------------------------------------------------
\* C24: 43501=0 is in the write set exactly when the call is not
\* short-circuited, the latch is 0 and 101 is remembered as 81 with its last
\* change at least 60 seconds old; 43501 is written only with the value of
\* the latch and never while the latch is unset.
C24_IndicatorDelayedClear ==
    last.called =>
        /\ Has(Registers, 43501, 0) <=>
              /\ g_43501_latched # 1
              /\ g_43501_latched = 0
              /\ g_101_current = RUN_CODE
              /\ g_101_changed_at # None
              /\ last.t[5] - g_101_changed_at >= HOLD_SECONDS
        /\ 43501 \in DOMAIN Registers =>
              /\ g_43501_latched # None
              /\ Registers[43501] = g_43501_latched

\* The latch was 0 already; 81 came back 60 seconds ago and the clear is
\* written again, next to the status registers.
C24_Witness ==
    /\ last.called
    /\ last.latched_before = 0
    /\ Has(Registers, 43501, 0)
    /\ Has(Registers, 3501, 0)
    /\ g_101_changed_at > 0


-----------------------------------------------------------------------------
(*                 Claims about the levels of a snapshot                   *)

FailedPhases(state) == {f \in PhaseFields : ~state[f]}

ElectricalSeverity(state) ==
    IF Cardinality(FailedPhases(state)) >= 2 THEN 2 ELSE Cardinality(FailedPhases(state))

LoadSeverity(state) == IF state.loadpos_ok THEN 0 ELSE 1

Severities(state) ==
    {0, ElectricalSeverity(state), LoadSeverity(state)}
        \cup {state[f] : f \in LevelFields}

Highest(S) == CHOOSE x \in S : \A y \in S : y <= x

\* C25: before the benign downgrade the overall level is the highest of 0,
\* the seven location levels, the electrical severity (0, 1, 2 for none, one,
\* two or more failed phases) and the load-position severity (1 if abnormal),
\* capped at 3; level 3 is reached only with a location level of 3 or more.
C25_AggregateLevel ==
    last.called =>
        LET expected == Min(3, Highest(Severities(last.state)))
        IN /\ aggregate_level(last.state) = expected
           /\ g_43501_latched # 1 =>
                 Registers[3502] = IF BenignSnapshot(last.state) /\ expected = 3
                                   THEN 2 ELSE expected
           /\ expected = 3 => \E f \in LevelFields : last.state[f] >= 3

\* Two failed phases and an abnormal load position with the line at level 4:
\* the level is 3, from the line alone.
C25_Witness ==
    /\ last.called
    /\ g_43501_latched # 1
    /\ last.state.line_level = 4
    /\ \A f \in LevelFields \ {"line_level"} : last.state[f] = 0
    /\ Cardinality(FailedPhases(last.state)) = 2
    /\ ~last.state.loadpos_ok
    /\ Has(Registers, 3502, 3)

-----------------------------------------------------------------------------
VibrationFields == {"crank_left_level", "crank_right_level", "tail_bearing_level",
                    "mid_bearing_level"}

ExpectedFaultType(state) ==
    LET belt == state.belt_level >= 3
        vibration == \E f \in VibrationFields : state[f] >= 3
        failed == FailedPhases(state) # {}
    IN IF belt /\ failed THEN 1
       ELSE IF ~failed /\ (vibration \/ belt) THEN 3
       ELSE IF vibration /\ failed THEN 2
       ELSE 0

\* C26: 3504 is 1 for the belt at 3 or more with a failed phase; else 3 with
\* all phases OK and a vibration location or the belt at 3 or more; else 2
\* for a vibration location at 3 or more with a failed phase; else 0.
\* Horsehead, line and load position do not change it.
C26_FaultType ==
    (last.called /\ g_43501_latched # 1) =>
        /\ Registers[3504] = ExpectedFaultType(last.state)
        /\ \A h, l \in LevelValues, lp \in BOOLEAN :
              fault_type([last.state EXCEPT !.horsehead_level = h, !.line_level = l,
                                            !.loadpos_ok = lp])
                 = Registers[3504]

\* The belt and a crank at level 3 with a failed phase: type 1, the belt
\* rule being tried first.
C26_Witness ==
    /\ last.called
    /\ g_43501_latched # 1
    /\ last.state.belt_level = 3
    /\ last.state.crank_left_level = 3
    /\ FailedPhases(last.state) # {}
    /\ Has(Registers, 3504, 1)

-----------------------------------------------------------------------------
Clamped(v, top) == IF v < 0 THEN 0 ELSE IF v > top THEN top ELSE v

PresenceBit == [a \in 3505..3510 |->
                   CASE a = 3505 -> "crank_left_level"
                     [] a = 3506 -> "crank_right_level"
                     [] a = 3507 -> "tail_bearing_level"
                     [] a = 3508 -> "mid_bearing_level"
                     [] a = 3509 -> "horsehead_level"
                     [] a = 3510 -> "belt_level"]

\* C27: a write set is exactly {43501: 1} or holds all of 3502-3520 with
\* 3502 in 0..3, 3503 = 0, 3504 in 0..3, 3505-3510 the presence of a level
\* at the matching location, 3511 the presence of a failed phase, 3513-3518
\* the matching levels clamped to 0..3, 3519 in 0..2 and 3520 = 3512; no
\* address outside 101, 3501-3520 and 43501 is written.
C27_WriteSetShape ==
    last.called =>
        /\ \/ Registers = Entry(43501, 1)
           \/ /\ 3502..3520 \subseteq DOMAIN Registers
              /\ Registers[3502] \in 0..3
              /\ Registers[3503] = 0
              /\ Registers[3504] \in 0..3
              /\ \A a \in 3505..3510 :
                    Registers[a] = IF last.state[PresenceBit[a]] >= 1 THEN 1 ELSE 0
              /\ Registers[3511] = IF FailedPhases(last.state) # {} THEN 1 ELSE 0
              /\ \A a \in 3505..3510 :
                    Registers[a + 8] = Clamped(last.state[PresenceBit[a]], 3)
              /\ Registers[3519] \in 0..2
              /\ Registers[3520] = Registers[3512]
              /\ Registers[3512] = IF last.state.loadpos_ok THEN 0 ELSE 1
        /\ DOMAIN Registers \subseteq {101, 43501} \cup (3501..3520)

\* A full write set with a location above the scale: the tail bearing at
\* level 4 is written as 3, with its presence bit, next to 101 = 82.
C27_Witness ==
    /\ last.called
    /\ last.state.tail_bearing_level = 4
    /\ Has(Registers, 3515, 3)
    /\ Has(Registers, 3507, 1)
    /\ Has(Registers, 101, STOP_CODE)
    /\ Has(Registers, 3520, 1)


-----------------------------------------------------------------------------
\* C28: a response that passes every check to a request for count registers
\* gives exactly count values, the i-th being 256 * (data byte 2i) + (data
\* byte 2i + 1) of the bytes received behind the three header bytes, in
\* request order, each in 0..65535.
C28_SuccessfulDecode ==
    \A th \in Threads :
        (tr_pc[th] = "idle" /\ tr_result[th].kind = "OK") =>
            LET data == Drop(tr_result[th].seen, 3)
                regs == tr_result[th].regs
            IN /\ Len(regs) = tr_req[th].count
               /\ \A i \in 1..Len(regs) :
                     /\ regs[i] = 256 * data[2 * i - 1] + data[2 * i]
                     /\ regs[i] \in 0..65535

\* Two registers: the bytes 11 22 33 44 are returned as 0x1122 and 0x3344.
C28_Witness ==
    /\ tr_pc[1] = "idle"
    /\ tr_result[1].kind = "OK"
    /\ tr_req[1].count = 2
    /\ SubSeq(tr_result[1].seen, 4, 7) = <<17, 34, 51, 68>>
    /\ tr_result[1].regs = <<4386, 13124>>


-----------------------------------------------------------------------------
(*                      Claims about the level of update                   *)

\* Samples of the detection window at or above a threshold.
Spikes(threshold) ==
    Cardinality({i \in 1..Len(th_history) : th_history[i] >= threshold})

\* The level spike counting chooses.
CountedLevel ==
    IF Spikes(th_cfg.level3) >= th_cfg.min_spike_count THEN 3
    ELSE IF Spikes(th_cfg.level2) >= th_cfg.min_spike_count THEN 2
    ELSE IF Spikes(th_cfg.level1) >= th_cfg.min_spike_count THEN 1
    ELSE 0

\* The baseline window is full, its mean is not zero and its spread is at
\* most baseline_tol times the mean.
StableWindow ==
    /\ Len(th_baseline_buf) = th_cfg.baseline_window
    /\ SeqSum(th_baseline_buf) # 0
    /\ \A i, j \in 1..Len(th_baseline_buf) :
          (th_baseline_buf[i] - th_baseline_buf[j]) * TolDen * Len(th_baseline_buf)
             <= th_cfg.baseline_tol_num * SeqSum(th_baseline_buf)

\* C29: while the baseline window is not stable, update returns the level
\* spike counting chooses: 3, else 2, else 1 for min_spike_count samples of
\* the detection window at or above level3, level2, level1, else 0; the
\* level returned is always in 0..3.
C29_LevelSelection ==
    th_result.called =>
        /\ ~StableWindow => th_result.level = CountedLevel
        /\ th_result.level \in 0..3

\* Level 2 from a full baseline window whose spread is above the tolerance.
C29_Witness ==
    /\ th_result.called
    /\ Len(th_baseline_buf) = th_cfg.baseline_window
    /\ SeqSum(th_baseline_buf) # 0
    /\ ~StableWindow
    /\ th_result.level = 2
    /\ Spikes(th_cfg.level1) > Spikes(th_cfg.level2)

-----------------------------------------------------------------------------
\* The current value over the baseline is below 1.2.
RatioBelow ==
    RatioDen * th_result.value * th_result.baseline.len
       < RatioNum * th_result.baseline.sum

\* C30: update returns 0 in place of the level spike counting chooses exactly
\* when that level is not 0, the baseline is defined, the baseline window is
\* stable and the value over the baseline is below 1.2; otherwise it returns
\* the counted level, and the guard never makes a level 1 or 2.
C30_SpikeRatioGuard ==
    th_result.called =>
        LET guarded == /\ CountedLevel > 0
                       /\ th_result.baseline.defined
                       /\ StableWindow
                       /\ RatioBelow
        IN /\ th_result.level = IF guarded THEN 0 ELSE CountedLevel
           /\ th_result.level \in {0, CountedLevel}

\* A stable window that is not flat, a counted level of 3 and a value less
\* than 1.2 times the baseline: level 0.
C30_Witness ==
    /\ th_result.called
    /\ StableWindow
    /\ CountedLevel = 3
    /\ RatioBelow
    /\ th_result.level = 0
    /\ SeqMax(th_baseline_buf) > SeqMin(th_baseline_buf)

\* A stable window and a value at least 1.2 times the baseline: the counted
\* level is kept.
C30_Kept ==
    /\ th_result.called
    /\ StableWindow
    /\ ~RatioBelow
    /\ th_result.level = 3

-----------------------------------------------------------------------------
\* The last min(n, k) of the n samples fed so far, oldest first.
LastFed(k) ==
    LET n == Len(th_fed.log)
    IN SubSeq(th_fed.log, n - Min(n, k) + 1, n)

\* C31: after n updates the detection buffer is the last min(n, window_size)
\* samples and the baseline buffer the last min(n, baseline_window) samples,
\* oldest first; the baseline, as kept and as returned by the last update,
\* is undefined while n < baseline_window and afterwards the mean of the last
\* baseline_window samples, the current one included.
C31_SlidingBuffers ==
    LET n == Len(th_fed.log)
    IN /\ th_history = LastFed(th_cfg.window_size)
       /\ th_baseline_buf = LastFed(th_cfg.baseline_window)
       /\ n < th_cfg.baseline_window => ~th_baseline.defined
       /\ n >= th_cfg.baseline_window =>
             /\ th_baseline.defined
             /\ th_baseline.sum = SeqSum(LastFed(th_cfg.baseline_window))
             /\ th_baseline.len = th_cfg.baseline_window
       /\ n > 0 => /\ th_result.called
                   /\ th_result.value = th_fed.log[n]
                   /\ th_result.baseline = th_baseline

\* Both buffers have evicted samples, the evicted ones differ from the kept
\* ones, and the baseline is a mean of unequal samples.
C31_Witness ==
    /\ Len(th_fed.log) = 5
    /\ th_cfg.window_size = 2
    /\ th_cfg.baseline_window = 3
    /\ th_fed.log = <<th_cfg.level3 + 1, 0, th_cfg.level1, 0, th_cfg.level3 + 1>>
    /\ th_history = <<0, th_cfg.level3 + 1>>
    /\ th_baseline_buf = <<th_cfg.level1, 0, th_cfg.level3 + 1>>
    /\ th_baseline.sum = th_cfg.level1 + th_cfg.level3 + 1

-----------------------------------------------------------------------------
\* The mapping without the keys that are no channels.
OnChannels(values) == [k \in DOMAIN values \cap Channels |-> values[k]]

\* deque(maxlen=k) after `value` arrived in `buf`.
Pushed(buf, value, k) ==
    LET all == Append(buf, value)
        n == Len(all)
    IN SubSeq(all, n - Min(n, k) + 1, n)

\* C32: in an update of analyzer "A", a channel missing from the mapping has
\* 0 pushed into both of its buffers (evicting the oldest sample of a full
\* one), a present channel its own value; a key that is no channel changes
\* nothing (the outcome is that of the mapping without it); levels and
\* baselines are reported for the channels only, and max_level is the largest
\* of the levels reported by that call.
C32_MissingChannel ==
    [][ th_multi'.n = th_multi.n + 1 =>
          LET before == th_multi.run["A"].analyzers
              after == th_multi'.run["A"]
              values == th_multi'.values
          IN /\ \A c \in Channels :
                   LET v == IF c \in DOMAIN values THEN values[c] ELSE 0
                   IN /\ after.analyzers[c].history =
                            Pushed(before[c].history, v, th_cfg.window_size)
                      /\ after.analyzers[c].baseline_buf =
                            Pushed(before[c].baseline_buf, v, th_cfg.baseline_window)
             /\ after = multi_update(th_cfg, before, OnChannels(values))
             /\ DOMAIN after.levels = Channels
             /\ DOMAIN after.baselines = Channels
             /\ \E c \in Channels : after.max_level = after.levels[c]
             /\ \A c \in Channels : after.max_level >= after.levels[c]
      ]_vars

\* The third update of "A" has a key that is no channel and lacks y, whose
\* full buffers lose their oldest sample to the 0; x, present, is at level 3.
C32_Witness ==
    /\ th_multi.n = 3
    /\ "w" \in DOMAIN th_multi.values
    /\ "y" \notin DOMAIN th_multi.values
    /\ "x" \in DOMAIN th_multi.values
    /\ th_multi.run["A"].analyzers["y"].history = <<th_cfg.level3 + 1, 0>>
    /\ th_multi.run["A"].analyzers["y"].baseline_buf = <<th_cfg.level3 + 1, 0>>
    /\ th_multi.run["A"].levels["y"] = 3
    /\ th_multi.run["A"].levels["z"] = 0
    /\ th_multi.run["A"].max_level = 3

\* C33: the level and the baseline returned for the channel th_multi.track
\* are the same in the two analyzers after every update, the mappings given
\* to them having agreed on that channel at every update and on nothing else.
C33_ChannelIndependence ==
    LET c == th_multi.track
    IN th_multi.n > 0 =>
          /\ th_multi.run["A"].levels[c] = th_multi.run["B"].levels[c]
          /\ th_multi.run["A"].baselines[c] = th_multi.run["B"].baselines[c]

\* After three updates the two analyzers differ on both other channels, in
\* level and in baseline, and agree on a tracked channel that is at level 3
\* with a baseline.
C33_Witness ==
    LET c == th_multi.track
        a == th_multi.run["A"]
        b == th_multi.run["B"]
    IN /\ th_multi.n = 3
       /\ a.levels[c] = 3
       /\ a.baselines[c].defined
       /\ \A o \in Channels \ {c} :
             /\ a.levels[o] # b.levels[o]
             /\ a.baselines[o] # b.baselines[o]
             /\ a.analyzers[o].history # b.analyzers[o].history

-----------------------------------------------------------------------------
\* The six locations read by _any_sensor_reach_level.
SensorFields == LevelFields \ {"line_level"}

\* All three phases OK and the load position normal.
CleanSupply(state) ==
    /\ state.elec_phase_a_ok /\ state.elec_phase_b_ok /\ state.elec_phase_c_ok
    /\ state.loadpos_ok

\* C34: with all three phases OK and the load position normal, a call that
\* is not short-circuited writes 3502=3 exactly when the line is at level 3
\* or above and none of the six sensor locations is; the same snapshot with
\* one of the six raised to 3 is written as 3502=2.
C34_LineOnlyLevel3 ==
    last.called /\ g_43501_latched # 1 /\ CleanSupply(last.state) =>
        /\ Has(Registers, 3502, 3) <=>
              /\ last.state.line_level >= 3
              /\ \A f \in SensorFields : last.state[f] < 3
        /\ Has(Registers, 3502, 3) =>
              \A f \in SensorFields :
                 LET raised == [last.state EXCEPT ![f] = 3]
                 IN status_registers(raised)[3502] = 2

\* The raised snapshot in a call: line and belt both at level 3, written as
\* level 2 without a stop command.
C34_Witness ==
    /\ last.called /\ g_43501_latched # 1 /\ CleanSupply(last.state)
    /\ last.state.line_level = 3
    /\ last.state.belt_level = 3
    /\ \A f \in SensorFields \ {"belt_level"} : last.state[f] = 0
    /\ Has(Registers, 3502, 2)
    /\ 101 \notin DOMAIN Registers

\* The line alone at level 3, written as level 3.
C34_LineAlone ==
    /\ last.called /\ g_43501_latched # 1 /\ CleanSupply(last.state)
    /\ last.state.line_level = 3
    /\ \A f \in SensorFields : last.state[f] = 0
    /\ Has(Registers, 3502, 3)

-----------------------------------------------------------------------------
\* C35: a call that finds the latch at 1 and ends its sync step with 101
\* remembered as 81 returns exactly {43501: 1} and keeps the latch at 1 while
\* 81 has been held less than 60 seconds at its latch update, whatever the
\* level of its snapshot, the call that observes the change to 81 included;
\* once 81 has been held 60 seconds the latch becomes 0 and the call writes
\* the status registers again.
C35_RunHoldShortCircuit ==
    (last.called /\ last.latched_before = 1 /\ g_101_current = RUN_CODE) =>
        /\ g_101_changed_at # None
        /\ last.t[2] - g_101_changed_at < HOLD_SECONDS =>
              /\ g_43501_latched = 1
              /\ Registers = Entry(43501, 1)
        /\ last.t[2] - g_101_changed_at >= HOLD_SECONDS =>
              /\ g_43501_latched = 0
              /\ (3502..3520) \subseteq DOMAIN Registers

\* With the latch at 1, the call that observes 81 instead of the remembered
\* value, on a level-3 snapshot, returns {43501: 1}.
C35_Witness ==
    /\ last.called
    /\ last.latched_before = 1
    /\ last.obs = RUN_CODE
    /\ last.sync # "same"
    /\ overall_alarm_level(last.state) = 3
    /\ g_43501_latched = 1
    /\ Registers = Entry(43501, 1)

\* A later call of the same hold, 81 still observed, on a level-3 snapshot.
C35_Held ==
    /\ last.called
    /\ last.latched_before = 1
    /\ last.obs = RUN_CODE
    /\ last.sync = "same"
    /\ last.t[2] > g_101_changed_at
    /\ overall_alarm_level(last.state) = 3
    /\ Registers = Entry(43501, 1)

\* The call that ends the hold on a level-3 snapshot: the latch becomes 0 and
\* the stop command is sent again.
C35_Resumed ==
    /\ last.called
    /\ last.latched_before = 1
    /\ g_101_current = RUN_CODE
    /\ g_43501_latched = 0
    /\ Has(Registers, 3502, 3)
    /\ Has(Registers, 101, STOP_CODE)

-----------------------------------------------------------------------------
\* C36: a call changes the remembered value of 101 or its time stamp only by
\* taking over the value observed by its caller, stamped at the sync step, and
\* never because of the 101=82 it writes; so under calls that never pass 82
\* as observed, 101 is never remembered as 82, the latch is never 1, and
\* every call at overall level 3 writes 101=82.
C36_NoSelfConfirmation ==
    /\ [](/\ g_101_current # STOP_CODE
          /\ g_43501_latched # 1
          /\ (last.called /\ overall_alarm_level(last.state) = 3) =>
                Has(Registers, 101, STOP_CODE))
    /\ [][ (g_101_current' # g_101_current \/ g_101_changed_at' # g_101_changed_at) =>
              /\ last'.obs # None
              /\ g_101_current' = last'.obs
              /\ g_101_changed_at' = last'.t[1]
         ]_vars

\* A level-3 call without an observed value, 60 seconds after the call that
\* started the timer: the stop code is written once more, with 3501=1, and
\* nothing is remembered of the earlier writes.
C36_Witness ==
    /\ last.called
    /\ last.obs = None
    /\ overall_alarm_level(last.state) = 3
    /\ last.trig_sync # None
    /\ last.t[4] - last.trig_sync >= HOLD_SECONDS
    /\ Has(Registers, 101, STOP_CODE)
    /\ Has(Registers, 3501, 1)
    /\ g_101_current = None
    /\ g_101_changed_at = None
    /\ g_43501_latched = None

-----------------------------------------------------------------------------
\* C37: in every exchange of a thread that assigned unit_id before its call,
\* the slave id framed into the request is the one that thread assigned, the
\* request CRC covers it, and the id the response address is compared with
\* is that same value, whatever the other thread assigns meanwhile.
C37_OwnUnitId ==
    \A th \in Threads :
       tr_req[th].unit_id # 0 =>
          /\ tr_pc[th] = "recv" =>
                /\ tr_tx[1] = tr_req[th].unit_id
                /\ TrailingCrc(tr_tx) = FrameCrc(tr_tx)
                /\ tr_unit_id = tr_tx[1]
          /\ (tr_pc[th] = "idle" /\ tr_ops[th] # << >>) =>
                tr_result[th].unit_id = tr_req[th].unit_id

-----------------------------------------------------------------------------
SameLevels(a, b) ==
    /\ DOMAIN a = DOMAIN b
    /\ \A sid \in DOMAIN a : a[sid] = b[sid]

\* C38: a get_latest_levels_for_alarm that began after the first update had
\* completed returns the whole _fault_levels of an update completed before it
\* began or while it ran, never an empty or a partial mapping.
C38_WholeSnapshot ==
    (br_rd_pc = "done" /\ br_rd_began >= 1) =>
        \E k \in br_rd_began..Len(br_saved) : SameLevels(br_rd_result, br_saved[k])

-----------------------------------------------------------------------------
\* The level the bridge holds for a sensor id after the updates made so far:
\* that of the latest update that mentions it, within 0..3.
LatestLevel(sid) ==
    LET k == CHOOSE i \in 1..Len(br_args) :
                /\ sid \in DOMAIN br_args[i]
                /\ \A j \in (i + 1)..Len(br_args) : sid \notin DOMAIN br_args[j]
        lvl == br_args[k][sid]
    IN IF lvl < 0 THEN 0 ELSE IF lvl > 3 THEN 3 ELSE lvl

StateFields == {"crank_left_level", "crank_right_level", "tail_bearing_level",
                "mid_bearing_level"}

\* C39: a get_latest_levels_for_alarm made after update_vibration_levels(L)
\* has completed, with no update under way, returns for every sensor id of L
\* its level brought into 0..3 and for every sensor id of an earlier update
\* the level it had last; map_to_state_fields of the result has the state
\* fields of the mapped ids it holds, with their levels, and nothing else.
C39_BridgeRoundTrip ==
    (br_rd_pc = "done" /\ br_pc = "idle" /\ br_rd_began = Len(br_args)
        /\ Len(br_args) >= 1) =>
        LET got == br_rd_result
            fields == map_to_state_fields(got)
        IN /\ \A sid \in DOMAIN br_args[Len(br_args)] :
                 /\ sid \in DOMAIN got
                 /\ got[sid].level = LatestLevel(sid)
                 /\ got[sid].level \in 0..3
           /\ \A k \in 1..Len(br_args) : \A sid \in DOMAIN br_args[k] :
                 /\ sid \in DOMAIN got
                 /\ got[sid].level = LatestLevel(sid)
           /\ DOMAIN got = UNION {DOMAIN br_args[k] : k \in 1..Len(br_args)}
           /\ DOMAIN fields \subseteq StateFields
           /\ \A sid \in DOMAIN got :
                 IF sid \in DOMAIN DEFAULT_VIBRATION_TO_STATE_FIELD
                 THEN /\ DEFAULT_VIBRATION_TO_STATE_FIELD[sid] \in DOMAIN fields
                      /\ fields[DEFAULT_VIBRATION_TO_STATE_FIELD[sid]] = got[sid].level
                 ELSE TRUE
           /\ \A f \in DOMAIN fields :
                 \E sid \in DOMAIN got \cap DOMAIN DEFAULT_VIBRATION_TO_STATE_FIELD :
                    DEFAULT_VIBRATION_TO_STATE_FIELD[sid] = f

\* After an update of the left crank (5) and the belt (1) and a later one of
\* the three other locations (-1, 3, 1), the poll returns all five ids, the
\* left crank at 3 and the right crank at 0, and the mapping gives the four
\* state fields without the belt.
C39_Witness ==
    /\ br_rd_pc = "done" /\ br_pc = "idle" /\ br_rd_began = Len(br_args)
    /\ Len(br_args) = 2
    /\ DOMAIN br_args[1] = {"vib_crank_left", "vib_belt"}
    /\ DOMAIN br_rd_result = SensorIds
    /\ br_rd_result["vib_crank_left"].level = 3
    /\ br_rd_result["vib_crank_left"].timestamp = 1
    /\ br_rd_result["vib_crank_right"].level = 0
    /\ br_rd_result["vib_belt"].level = 1
    /\ DOMAIN map_to_state_fields(br_rd_result) = StateFields
    /\ map_to_state_fields(br_rd_result)["crank_left_level"] = 3

=============================================================================
